---- MODULE Spec2Model ----
(***************************************************************************)
(* CnF-Infinity (src/main.rs): the canvas interaction and document engine. *)
(*                                                                         *)
(* The program is MyApp plus one handler, App::update, run once per frame. *)
(* A step of the model is one whole frame: the input of the frame (pointer *)
(* pressed / moved / released on a widget, scroll, nothing) is chosen by   *)
(* the environment, and Frame runs the sections of update in source order. *)
(*                                                                         *)
(* Numbers.  f32 coordinates are integers (document or screen units).      *)
(* zoom is kept in tenths (zoom = 20 is 2.0).  Option<T> is a sequence of  *)
(* length 0 (None) or 1 (Some).  Pos2 / Vec2 are pairs <<x, y>>.           *)
(* Node text, colours and stroke thickness never influence control flow    *)
(* and are left out of the node / stroke records.                          *)
(***************************************************************************)
EXTENDS Integers, Sequences, FiniteSets, TLC

\* ---------------------------------------------------------------- bounds
MaxId == 2          \* ids issued per session: create is cut off above it
MaxNodes == 2       \* live nodes explored
MaxRowNodes == 3    \* notes explored with the reorder buttons alone
MaxUndo == 2        \* longest undo stack explored
MaxUndoConnect == 4 \* longest undo stack explored in Connect mode
MaxUndoRow == 5     \* longest undo stack explored with the reorder buttons alone
MaxConns == 2       \* connections explored
MaxStrokes == 2     \* committed strokes explored
MaxModeStrokes == 1 \* committed strokes explored with every mode toggle in play
MaxEraseStrokes == 3 \* committed strokes explored with the marker and the eraser alone
MaxGestureNodes == 1 \* notes explored with every kind of gesture in play
MaxFileNodes == 1  \* code nodes and strokes explored in documents written to the file
MaxResizeNodes == 1 \* nodes explored together with the size fields
MaxLockNodes == 1   \* code nodes explored with their text fields
MaxZoomNodes == 1   \* notes explored with every zoom level in play
MaxPts == 2         \* points per in-progress stroke explored
MaxMoves == 2       \* pointer-move frames explored
MaxSnippet == 2     \* characters of a typed code snippet explored
MaxFileText == 3    \* characters of a file read by Lock explored

\* ------------------------------------------------------ program constants
DefaultZoom == 20           \* zoom: 2.0                       (main.rs:240)
MinZoom == 4                \* clamp lower end 0.4             (main.rs:869)
MaxZoom == 40               \* clamp upper end 4.0             (main.rs:869)
ZoomDen == 10               \* zoom is stored in tenths
ScrollDen == 1000           \* scroll * 0.001                  (main.rs:868)
EraserRadius == 10          \* threshold = 10.0 / zoom         (main.rs:696)
SpawnRadius == 100          \* radius = 100.0 / zoom           (main.rs:1250)
NoteSize == <<200, 40>>     \* (main.rs:1287)
CodeSize == <<300, 40>>     \* (main.rs:1259)
MinSize == 1                \* DragValue range 1.0..=400.0     (main.rs:954)
MaxSize == 400              \* DragValue range 1.0..=400.0     (main.rs:954)
FirstId == 1                \* next_note_id: 1                 (main.rs:245)

\* cos / sin of k * 45 degrees, times 1000                     (main.rs:1248)
TrigDen == 1000
Cos8 == <<1000, 707, 0, -707, -1000, -707, 0, 707>>
Sin8 == <<0, 707, 1000, 707, 0, -707, -1000, -707>>

\* ------------------------------------------------------------ environment
ScreenCenter == <<400, 300>>             \* ctx.screen_rect().center()
ScreenPts == {<<400, 300>>, <<440, 300>>} \* where a press can land
Deltas == {<<20, 0>>}                    \* pointer movement of one frame
\* values a size DragValue is given: below, at the ends of and above its range
SizeInputs == {MinSize - 1, MinSize, MaxSize, MaxSize + 1}
\* raw_scroll_delta.y of a frame: factors 2, 1/2 and -1
Scrolls == {1000, -500, -2000}

\* file contents Lock can meet and a file path typed
Files == {<<"a", "\n", "b", "\n">>, <<"b">>}
Paths == {<<"f">>}
Sides == {"Top", "Bottom", "Left", "Right"}
NodeTypes == {"Note", "Code"}
ToolButtons ==
    {"Tools", "New", "Open", "Undo", "Redo", "Code Node", "Note Node",
     "Marker", "Eraser", "Arrow", "Reset Zoom", "Save Project"}
MenuButtons == {"Backward", "Forward", "Delete"}

VARIABLES
    zoom, offset, dragging, drag_start, tools_open, next_note_id,
    note_nodes, code_nodes, connections, marker_active, eraser_active,
    current_stroke, strokes, project_root, arrow_connection_active,
    connection_start, undo_stack, redo_stack, selected_node,
    MARKER_STATE_RECORDED, ERASER_STATE_RECORDED,
    crashed,        \* the process has panicked (unwrap / index out of bounds)
    disk,           \* the document file: <<>> or <<the JSON of a ProjectHistory>>
    pointer,        \* egui's pointer: down, pos, pressed widget, moved
    gesture_from,   \* history: take_snapshot when the held pointer went down
    redo_from,      \* history: "none" when record_state ran last (or nothing
                    \*          yet); since then "undo" once undo() popped a
                    \*          snapshot, "load" when only Open restored one
    last_cmd,       \* history: what the last release did: the button or
                    \*          widget clicked, or "drag"
    ids_seen,       \* history: the ids live nodes held in this session
                    \*          before the last release frame ran
    moves,          \* history: pointer-move frames so far
    trail           \* history: the document points the pointer was at in the
                    \*          frames of the gesture under way, in order

vars ==
    <<zoom, offset, dragging, drag_start, tools_open, next_note_id,
      note_nodes, code_nodes, connections, marker_active, eraser_active,
      current_stroke, strokes, project_root, arrow_connection_active,
      connection_start, undo_stack, redo_stack, selected_node,
      MARKER_STATE_RECORDED, ERASER_STATE_RECORDED, crashed, disk, pointer,
      gesture_from, redo_from, last_cmd,
      ids_seen, moves, trail>>

\* ---------------------------------------------------------------- helpers
Add(p, q) == <<p[1] + q[1], p[2] + q[2]>>
Sub(p, q) == <<p[1] - q[1], p[2] - q[2]>>
Abs(x) == IF x < 0 THEN -x ELSE x
Swap(s, i, j) == [s EXCEPT ![i] = s[j], ![j] = s[i]]
RemoveAt(s, i) == SubSeq(s, 1, i - 1) \o SubSeq(s, i + 1, Len(s))

\* ------------------------------------------------------- view transform
\* (node.position * self.zoom) + self.offset
ToScreen(p, off, z) == <<(p[1] * z) \div ZoomDen + off[1], (p[2] * z) \div ZoomDen + off[2]>>
\* (pos - self.offset) / self.zoom
ToDocument(p, off, z) == <<((p[1] - off[1]) * ZoomDen) \div z, ((p[2] - off[2]) * ZoomDen) \div z>>
\* node.size * self.zoom
ScaleSize(sz, z) == <<(sz[1] * z) \div ZoomDen, (sz[2] * z) \div ZoomDen>>
\* interact.drag_delta() / self.zoom
UnscaleDelta(d, z) == <<(d[1] * ZoomDen) \div z, (d[2] * ZoomDen) \div z>>

\* ------------------------------------------------------------ the MyApp
\* MyApp::default()
DefaultApp ==
    [zoom |-> DefaultZoom, offset |-> <<0, 0>>, dragging |-> FALSE,
     drag_start |-> <<0, 0>>, tools_open |-> FALSE, next_note_id |-> FirstId,
     note_nodes |-> <<>>, code_nodes |-> <<>>, connections |-> <<>>,
     marker_active |-> FALSE, eraser_active |-> FALSE,
     current_stroke |-> <<>>, strokes |-> <<>>, project_root |-> <<>>,
     arrow_connection_active |-> FALSE, connection_start |-> <<>>,
     undo_stack |-> <<>>, redo_stack |-> <<>>, selected_node |-> <<>>]

NoTarget == [w |-> "none", i |-> 0, b |-> ""]
PointerUp == [down |-> FALSE, pos |-> ScreenCenter, target |-> NoTarget, moved |-> FALSE]
NoSnapshot ==
    [note_nodes |-> <<>>, code_nodes |-> <<>>, connections |-> <<>>,
     strokes |-> <<>>, zoom |-> 0, offset |-> <<0, 0>>]

\* The whole state as one record, so that the sections of update compose.
App ==
    [zoom |-> zoom, offset |-> offset, dragging |-> dragging,
     drag_start |-> drag_start, tools_open |-> tools_open,
     next_note_id |-> next_note_id, note_nodes |-> note_nodes,
     code_nodes |-> code_nodes, connections |-> connections,
     marker_active |-> marker_active, eraser_active |-> eraser_active,
     current_stroke |-> current_stroke, strokes |-> strokes,
     project_root |-> project_root,
     arrow_connection_active |-> arrow_connection_active,
     connection_start |-> connection_start, undo_stack |-> undo_stack,
     redo_stack |-> redo_stack, selected_node |-> selected_node,
     MARKER_STATE_RECORDED |-> MARKER_STATE_RECORDED,
     ERASER_STATE_RECORDED |-> ERASER_STATE_RECORDED,
     crashed |-> crashed, disk |-> disk, pointer |-> pointer,
     gesture_from |-> gesture_from, redo_from |-> redo_from,
     last_cmd |-> last_cmd, ids_seen |-> ids_seen, moves |-> moves,
     trail |-> trail]

Commit(r) ==
    /\ zoom' = r.zoom /\ offset' = r.offset /\ dragging' = r.dragging
    /\ drag_start' = r.drag_start /\ tools_open' = r.tools_open
    /\ next_note_id' = r.next_note_id /\ note_nodes' = r.note_nodes
    /\ code_nodes' = r.code_nodes /\ connections' = r.connections
    /\ marker_active' = r.marker_active /\ eraser_active' = r.eraser_active
    /\ current_stroke' = r.current_stroke /\ strokes' = r.strokes
    /\ project_root' = r.project_root
    /\ arrow_connection_active' = r.arrow_connection_active
    /\ connection_start' = r.connection_start /\ undo_stack' = r.undo_stack
    /\ redo_stack' = r.redo_stack /\ selected_node' = r.selected_node
    /\ MARKER_STATE_RECORDED' = r.MARKER_STATE_RECORDED
    /\ ERASER_STATE_RECORDED' = r.ERASER_STATE_RECORDED
    /\ crashed' = r.crashed /\ disk' = r.disk /\ pointer' = r.pointer
    /\ gesture_from' = r.gesture_from
    /\ redo_from' = r.redo_from /\ last_cmd' = r.last_cmd
    /\ ids_seen' = r.ids_seen /\ moves' = r.moves /\ trail' = r.trail

\* --------------------------------------------------- snapshots, history
take_snapshot(a) ==
    [note_nodes |-> a.note_nodes, code_nodes |-> a.code_nodes,
     connections |-> a.connections, strokes |-> a.strokes,
     zoom |-> a.zoom, offset |-> a.offset]

\* a restore that also closes the floating menu
restore_snapshot_drops_selection(a, snapshot) ==
    [a EXCEPT !.note_nodes = snapshot.note_nodes,
              !.code_nodes = snapshot.code_nodes,
              !.connections = snapshot.connections,
              !.strokes = snapshot.strokes,
              !.zoom = snapshot.zoom,
              !.offset = snapshot.offset,
              !.selected_node = <<>>]

restore_snapshot(a, snapshot) ==
    [a EXCEPT !.note_nodes = snapshot.note_nodes,
              !.code_nodes = snapshot.code_nodes,
              !.connections = snapshot.connections,
              !.strokes = snapshot.strokes,
              !.zoom = snapshot.zoom,
              !.offset = snapshot.offset]

\* record_state that leaves the redo stack alone
record_state_keeps_redo(a) ==
    [a EXCEPT !.undo_stack = Append(@, take_snapshot(a)),
              !.redo_from = "none"]

record_state(a) ==
    [a EXCEPT !.undo_stack = Append(@, take_snapshot(a)),
              !.redo_stack = <<>>,
              !.redo_from = "none"]

\* undo that drops the current state instead of pushing it onto redo
undo_drops_current(a) ==
    IF a.undo_stack # <<>>
    THEN LET snapshot == a.undo_stack[Len(a.undo_stack)]
             popped == [a EXCEPT !.undo_stack = SubSeq(@, 1, Len(@) - 1),
                                 !.redo_from = "undo"]
         IN restore_snapshot(popped, snapshot)
    ELSE a

\* undo that pushes the current state onto redo before it looks at the stack
undo_pushes_first(a) ==
    LET pushed == [a EXCEPT !.redo_stack = Append(@, take_snapshot(a))]
    IN IF a.undo_stack # <<>>
       THEN LET snapshot == a.undo_stack[Len(a.undo_stack)]
                popped == [pushed EXCEPT !.undo_stack = SubSeq(@, 1, Len(@) - 1),
                                         !.redo_from = "undo"]
            IN restore_snapshot(popped, snapshot)
       ELSE pushed

undo(a) ==
    IF a.undo_stack # <<>>
    THEN LET snapshot == a.undo_stack[Len(a.undo_stack)]
             popped == [a EXCEPT !.undo_stack = SubSeq(@, 1, Len(@) - 1)]
             pushed == [popped EXCEPT !.redo_stack = Append(@, take_snapshot(a)),
                                      !.redo_from = "undo"]
         IN restore_snapshot(pushed, snapshot)
    ELSE a

redo(a) ==
    IF a.redo_stack # <<>>
    THEN LET snapshot == a.redo_stack[Len(a.redo_stack)]
             popped == [a EXCEPT !.redo_stack = SubSeq(@, 1, Len(@) - 1)]
             pushed == [popped EXCEPT !.undo_stack = Append(@, take_snapshot(a))]
         IN restore_snapshot(pushed, snapshot)
    ELSE a

project_history(a) ==
    [undo_stack |-> a.undo_stack, redo_stack |-> a.redo_stack,
     current |-> take_snapshot(a)]

\* ---- the document: serde_json::to_string_pretty / serde_json::from_str
\* A JSON number is its sign and its digits (in the unit the model counts
\* the value in), a bool is true / false, None is null, a tuple and a Vec
\* are arrays, a struct is an object with one member per field, an enum
\* variant is its name.
json_number(v) == [sign |-> IF v < 0 THEN "-" ELSE "", digits |-> Abs(v)]
parse_number(j) == IF j.sign = "-" THEN 0 - j.digits ELSE j.digits

json_bool(b) == IF b THEN "true" ELSE "false"
parse_bool(j) == j = "true"

\* A JSON string is the string's characters, the control characters
\* written as their escapes.
json_string(str) ==
    [k \in 1..Len(str) |->
        IF str[k] = "\n" THEN "\\n" ELSE IF str[k] = "\r" THEN "\\r" ELSE str[k]]
parse_string(j) ==
    [k \in 1..Len(j) |->
        IF j[k] = "\\n" THEN "\n" ELSE IF j[k] = "\\r" THEN "\r" ELSE j[k]]

\* Option<usize>
json_option(o) == IF o = <<>> THEN [null |-> TRUE] ELSE json_number(o[1])
parse_option(j) == IF "null" \in DOMAIN j THEN <<>> ELSE <<parse_number(j)>>

\* ser_de::serialize_pos2 / serialize_vec2: the tuple (x, y)
serialize_pos2(p) == <<json_number(p[1]), json_number(p[2])>>
deserialize_pos2(j) == <<parse_number(j[1]), parse_number(j[2])>>

\* ser_de::serialize_pos2_vec
serialize_pos2_vec(ps) == [k \in 1..Len(ps) |-> serialize_pos2(ps[k])]
deserialize_pos2_vec(j) == [k \in 1..Len(j) |-> deserialize_pos2(j[k])]

\* #[derive(Serialize, Deserialize)] struct NoteNode
serialize_note(n) ==
    [id |-> json_number(n.id), position |-> serialize_pos2(n.position),
     size |-> serialize_pos2(n.size), is_dragging |-> json_bool(n.is_dragging),
     locked |-> json_bool(n.locked)]
deserialize_note(j) ==
    [id |-> parse_number(j.id), position |-> deserialize_pos2(j.position),
     size |-> deserialize_pos2(j.size), is_dragging |-> parse_bool(j.is_dragging),
     locked |-> parse_bool(j.locked)]

\* struct CodeNode
serialize_code(n) ==
    [id |-> json_number(n.id), position |-> serialize_pos2(n.position),
     size |-> serialize_pos2(n.size), file_path |-> json_string(n.file_path),
     code |-> json_string(n.code), is_dragging |-> json_bool(n.is_dragging),
     locked |-> json_bool(n.locked), line_offset |-> json_option(n.line_offset)]
deserialize_code(j) ==
    [id |-> parse_number(j.id), position |-> deserialize_pos2(j.position),
     size |-> deserialize_pos2(j.size), file_path |-> parse_string(j.file_path),
     code |-> parse_string(j.code), is_dragging |-> parse_bool(j.is_dragging),
     locked |-> parse_bool(j.locked), line_offset |-> parse_option(j.line_offset)]

\* struct NodeConnection; NodeType and Side are written as their names
serialize_connection(c) ==
    [start_node_id |-> json_number(c.start_node_id),
     start_node_type |-> c.start_node_type, start_side |-> c.start_side,
     end_node_id |-> json_number(c.end_node_id),
     end_node_type |-> c.end_node_type, end_side |-> c.end_side]
deserialize_connection(j) ==
    [start_node_id |-> parse_number(j.start_node_id),
     start_node_type |-> j.start_node_type, start_side |-> j.start_side,
     end_node_id |-> parse_number(j.end_node_id),
     end_node_type |-> j.end_node_type, end_side |-> j.end_side]

\* struct Stroke
serialize_stroke(st) == [points |-> serialize_pos2_vec(st.points)]
deserialize_stroke(j) == [points |-> deserialize_pos2_vec(j.points)]

\* struct ProjectSnapshot
serialize_snapshot(sn) ==
    [note_nodes |-> [k \in 1..Len(sn.note_nodes) |-> serialize_note(sn.note_nodes[k])],
     code_nodes |-> [k \in 1..Len(sn.code_nodes) |-> serialize_code(sn.code_nodes[k])],
     connections |->
         [k \in 1..Len(sn.connections) |-> serialize_connection(sn.connections[k])],
     strokes |-> [k \in 1..Len(sn.strokes) |-> serialize_stroke(sn.strokes[k])],
     zoom |-> json_number(sn.zoom), offset |-> serialize_pos2(sn.offset)]
deserialize_snapshot(j) ==
    [note_nodes |-> [k \in 1..Len(j.note_nodes) |-> deserialize_note(j.note_nodes[k])],
     code_nodes |-> [k \in 1..Len(j.code_nodes) |-> deserialize_code(j.code_nodes[k])],
     connections |->
         [k \in 1..Len(j.connections) |-> deserialize_connection(j.connections[k])],
     strokes |-> [k \in 1..Len(j.strokes) |-> deserialize_stroke(j.strokes[k])],
     zoom |-> parse_number(j.zoom), offset |-> deserialize_pos2(j.offset)]

\* struct ProjectHistory
serialize_history(h) ==
    [undo_stack |-> [k \in 1..Len(h.undo_stack) |-> serialize_snapshot(h.undo_stack[k])],
     redo_stack |-> [k \in 1..Len(h.redo_stack) |-> serialize_snapshot(h.redo_stack[k])],
     current |-> serialize_snapshot(h.current)]

\* a reader that takes the redo stack for empty
deserialize_history_without_redo(j) ==
    [undo_stack |-> [k \in 1..Len(j.undo_stack) |-> deserialize_snapshot(j.undo_stack[k])],
     redo_stack |-> <<>>,
     current |-> deserialize_snapshot(j.current)]

deserialize_history(j) ==
    [undo_stack |-> [k \in 1..Len(j.undo_stack) |-> deserialize_snapshot(j.undo_stack[k])],
     redo_stack |-> [k \in 1..Len(j.redo_stack) |-> deserialize_snapshot(j.redo_stack[k])],
     current |-> deserialize_snapshot(j.current)]

\* save_project: the document written is the JSON text of project_history();
\* ok is whether File::create / write_all succeed.  Nothing of MyApp changes.
save_project(a, ok) ==
    IF ok THEN [a EXCEPT !.disk = <<serialize_history(project_history(a))>>] ELSE a

\* load_project that empties the stacks before it reads the file
load_project_clears_first(a, ok) ==
    IF ok /\ a.disk # <<>>
    THEN LET history == deserialize_history(a.disk[1])
             stacks == [a EXCEPT !.undo_stack = history.undo_stack,
                                 !.redo_stack = history.redo_stack,
                                 !.redo_from =
                                     IF @ = "undo" THEN "undo" ELSE "load"]
         IN restore_snapshot(stacks, history.current)
    ELSE [a EXCEPT !.undo_stack = <<>>, !.redo_stack = <<>>]

\* load_project: read_to_string or from_str fail (ok = FALSE, or no file)
\* before anything is assigned.
load_project(a, ok) ==
    IF ok /\ a.disk # <<>>
    THEN LET history == deserialize_history(a.disk[1])
             stacks == [a EXCEPT !.undo_stack = history.undo_stack,
                                 !.redo_stack = history.redo_stack,
                                 !.redo_from =
                                     IF @ = "undo" THEN "undo" ELSE "load"]
         IN restore_snapshot(stacks, history.current)
    ELSE a

\* ------------------------------------------------------------- geometry
\* iter().find(|n| n.id == id): the index of the first node with that id, 0
\* when there is none.
find(nodes, id) ==
    IF \E k \in 1..Len(nodes) : nodes[k].id = id
    THEN CHOOSE k \in 1..Len(nodes) :
            /\ nodes[k].id = id
            /\ \A j \in 1..(k - 1) : nodes[j].id # id
    ELSE 0

side_normal(side) ==
    CASE side = "Top" -> <<0, -1>>
      [] side = "Bottom" -> <<0, 1>>
      [] side = "Left" -> <<-1, 0>>
      [] side = "Right" -> <<1, 0>>

\* connection_point: fraction = (arrow_index + 1) / (total + 1).  Each
\* coordinate is returned exactly, as a rational <<numerator, denominator>>.
connection_point(node_pos, node_size, side, arrow_index, total) ==
    LET num == arrow_index + 1
        den == total + 1
        whole(v) == <<v * den, den>>
        along(v, extent) == <<v * den + extent * num, den>>
    IN CASE side = "Top" ->
              <<along(node_pos[1], node_size[1]), whole(node_pos[2])>>
         [] side = "Bottom" ->
              <<along(node_pos[1], node_size[1]), whole(node_pos[2] + node_size[2])>>
         [] side = "Left" ->
              <<whole(node_pos[1]), along(node_pos[2], node_size[2])>>
         [] side = "Right" ->
              <<whole(node_pos[1] + node_size[1]), along(node_pos[2], node_size[2])>>

\* get_arrow_index: current is the position of the connection in the slice
\* (std::ptr::eq compares storage locations, not values).
RECURSIVE arrow_index_loop(_, _, _, _, _, _, _)
arrow_index_loop(conns, k, node_id, side, current, count, index) ==
    IF k > Len(conns) THEN <<index, count>>
    ELSE IF conns[k].start_node_id = node_id /\ conns[k].start_side = side
         THEN arrow_index_loop(conns, k + 1, node_id, side, current, count + 1,
                               IF k = current THEN count ELSE index)
         ELSE arrow_index_loop(conns, k + 1, node_id, side, current, count, index)

\* a rank that is 0 for every connection
get_arrow_index_unranked(conns, node_id, side, current) ==
    <<0, arrow_index_loop(conns, 1, node_id, side, current, 0, 0)[2]>>

get_arrow_index(conns, node_id, side, current) ==
    arrow_index_loop(conns, 1, node_id, side, current, 0, 0)

\* The choice with the left side never chosen.
determine_closest_side_never_left(node_pos, node_size, point) ==
    LET top == node_pos[2]
        bottom == node_pos[2] + node_size[2]
        dist_top == Abs(point[2] - top)
        dist_bottom == Abs(point[2] - bottom)
    IN IF dist_top <= dist_bottom THEN "Top" ELSE "Right"

determine_closest_side(node_pos, node_size, point) ==
    LET left == node_pos[1]
        right == node_pos[1] + node_size[1]
        top == node_pos[2]
        bottom == node_pos[2] + node_size[2]
        dist_top == Abs(point[2] - top)
        dist_bottom == Abs(point[2] - bottom)
        dist_left == Abs(point[1] - left)
        dist_right == Abs(point[1] - right)
    IN IF dist_top <= dist_bottom /\ dist_top <= dist_left /\ dist_top <= dist_right
       THEN "Top"
       ELSE IF dist_bottom <= dist_top /\ dist_bottom <= dist_left /\ dist_bottom <= dist_right
       THEN "Bottom"
       ELSE IF dist_left <= dist_top /\ dist_left <= dist_bottom /\ dist_left <= dist_right
       THEN "Left"
       ELSE "Right"

\* a placeholder of no extent
FallbackNode_zero_size == [position |-> <<0, 0>>, size |-> <<0, 0>>]

\* "Render Connections": position and size on screen of the node a
\* connection end refers to; unwrap_or(&fallback_note / &fallback_code) gives
\* the node at the origin with size (1, 1) when the id is not found.
FallbackNode == [position |-> <<0, 0>>, size |-> <<1, 1>>]

node_rect(a, type, id) ==
    LET nodes == IF type = "Note" THEN a.note_nodes ELSE a.code_nodes
        k == find(nodes, id)
        node == IF k = 0 THEN FallbackNode ELSE nodes[k]
    IN [pos |-> ToScreen(node.position, a.offset, a.zoom),
        size |-> ScaleSize(node.size, a.zoom)]

\* "Render Connections": start_connection_point of connection k.
start_connection_point(a, k) ==
    LET c == a.connections[k]
        rect == node_rect(a, c.start_node_type, c.start_node_id)
        it == get_arrow_index(a.connections, c.start_node_id, c.start_side, k)
    IN connection_point(rect.pos, rect.size, c.start_side, it[1], it[2])

\* "Render Connections": end_connection_point of connection k.
end_connection_point(a, k) ==
    LET c == a.connections[k]
        rect == node_rect(a, c.end_node_type, c.end_node_id)
        it == get_arrow_index(a.connections, c.end_node_id, c.end_side, k)
    IN connection_point(rect.pos, rect.size, c.end_side, it[1], it[2])

\* ------------------------------------------- the sections of App::update
\* Every section takes the state record a and the frame's events ev:
\*   primary_down   pointer.primary_down()
\*   pos            pointer.interact_pos() / response.interact_pointer_pos()
\*   target         the widget the pointer was pressed on
\*   clicked        response.clicked()      of that widget, this frame
\*   drag_started   response.drag_started() of that widget, this frame
\*   drag_stopped   response.drag_stopped() of that widget, this frame
\*   drag_delta     response.drag_delta()   of that widget, this frame
\*   scroll         raw_scroll_delta.y
\*   picked         the file dialog returned a path (rfd::FileDialog)
\*   io_ok          the file operation of this frame succeeds
\*   file           the contents of the file Lock reads for a code node
\*   typed          <<the text a text field of a code node was given>>
\*   released       the primary button went up in this frame

\* "Temporary Arrow (in progress)": find(..).unwrap() on the pending start.
PreviewPhase(a, ev) ==
    IF a.arrow_connection_active /\ a.connection_start # <<>>
    THEN LET cs == a.connection_start[1]
             nodes == IF cs.type = "Note" THEN a.note_nodes ELSE a.code_nodes
         IN IF find(nodes, cs.id) = 0 THEN [a EXCEPT !.crashed = TRUE] ELSE a
    ELSE a

\* a marker that commits a copy of the stroke in progress (as_ref instead of
\* take) and so leaves current_stroke in place
MarkerPhase_keeps_stroke(a, ev) ==
    IF ~a.marker_active THEN a
    ELSE IF ev.primary_down
    THEN [a EXCEPT !.MARKER_STATE_RECORDED = FALSE,
                   !.current_stroke =
                       IF @ # <<>>
                       THEN <<[points |-> Append(@[1].points,
                                                 ToDocument(ev.pos, a.offset, a.zoom))]>>
                       ELSE <<[points |-> <<ToDocument(ev.pos, a.offset, a.zoom)>>]>>]
    ELSE IF a.current_stroke = <<>> THEN a
    ELSE IF ~a.MARKER_STATE_RECORDED
    THEN [record_state([a EXCEPT !.strokes = Append(@, a.current_stroke[1])])
             EXCEPT !.MARKER_STATE_RECORDED = TRUE]
    ELSE [a EXCEPT !.strokes = Append(@, a.current_stroke[1])]

\* "Marker and Eraser Drawing", marker half.
MarkerPhase(a, ev) ==
    IF ~a.marker_active THEN a
    ELSE IF ev.primary_down
    THEN LET canvas_pos == ToDocument(ev.pos, a.offset, a.zoom)
         IN [a EXCEPT !.MARKER_STATE_RECORDED = FALSE,
                      !.current_stroke =
                          IF @ # <<>>
                          THEN <<[points |-> Append(@[1].points, canvas_pos)]>>
                          ELSE <<[points |-> <<canvas_pos>>]>>]
    ELSE IF a.current_stroke # <<>>
    THEN LET taken == [a EXCEPT !.strokes = Append(@, a.current_stroke[1]),
                                !.current_stroke = <<>>]
         IN IF ~taken.MARKER_STATE_RECORDED
            THEN [record_state(taken) EXCEPT !.MARKER_STATE_RECORDED = TRUE]
            ELSE taken
    ELSE a

\* stroke.points.retain(|&p| p.distance(canvas_pos) >= threshold), with
\* threshold = 10.0 / zoom; compared as squares.
erase_points(points, canvas_pos, z) ==
    LET r2 == (EraserRadius * ZoomDen) * (EraserRadius * ZoomDen)
        least == (r2 + z * z - 1) \div (z * z)   \* d2 * z^2 >= r2  iff  d2 >= least
        Far(p) ==
            (p[1] - canvas_pos[1]) * (p[1] - canvas_pos[1])
            + (p[2] - canvas_pos[2]) * (p[2] - canvas_pos[2]) >= least
    IN SelectSeq(points, Far)

\* an eraser that keeps the strokes it has emptied
erase_strokes_keeps_short(ss, canvas_pos, z) ==
    [k \in 1..Len(ss) |-> [ss[k] EXCEPT !.points = erase_points(@, canvas_pos, z)]]

\* the eraser's two retain calls over self.strokes
erase_strokes(ss, canvas_pos, z) ==
    LET erased == [k \in 1..Len(ss) |->
                      [ss[k] EXCEPT !.points = erase_points(@, canvas_pos, z)]]
        LongEnough(s) == Len(s.points) > 1
    IN SelectSeq(erased, LongEnough)

\* an eraser that records a snapshot on every frame in which it erases
EraserPhase_records_each_frame(a, ev) ==
    IF ~a.eraser_active THEN a
    ELSE IF ev.primary_down
    THEN record_state(
             [a EXCEPT !.ERASER_STATE_RECORDED = FALSE,
                       !.strokes = erase_strokes(@, ToDocument(ev.pos, a.offset, a.zoom),
                                                 a.zoom)])
    ELSE IF ~a.ERASER_STATE_RECORDED
    THEN [record_state(a) EXCEPT !.ERASER_STATE_RECORDED = TRUE]
    ELSE a

\* "Marker and Eraser Drawing", eraser half.
EraserPhase(a, ev) ==
    IF ~a.eraser_active THEN a
    ELSE IF ev.primary_down
    THEN LET canvas_pos == ToDocument(ev.pos, a.offset, a.zoom)
         IN [a EXCEPT !.ERASER_STATE_RECORDED = FALSE,
                      !.strokes = erase_strokes(@, canvas_pos, a.zoom)]
    ELSE IF ~a.ERASER_STATE_RECORDED
    THEN [record_state(a) EXCEPT !.ERASER_STATE_RECORDED = TRUE]
    ELSE a

\* a pick that leaves the pending start in place after it made a connection
connection_pick_keeps_start(a, ev, type, i) ==
    LET node == IF type = "Note" THEN a.note_nodes[i] ELSE a.code_nodes[i]
        side == determine_closest_side(ToScreen(node.position, a.offset, a.zoom),
                                       ScaleSize(node.size, a.zoom), ev.pos)
    IN IF a.connection_start # <<>>
       THEN record_state(
                [a EXCEPT !.connections =
                              Append(@, [start_node_id |-> a.connection_start[1].id,
                                         start_node_type |-> a.connection_start[1].type,
                                         start_side |-> a.connection_start[1].side,
                                         end_node_id |-> node.id,
                                         end_node_type |-> type,
                                         end_side |-> side])])
       ELSE [a EXCEPT !.connection_start =
                          <<[id |-> node.id, type |-> type, side |-> side]>>]

\* One pick of "Arrow Connection Logic": the node of kind type at index i
\* reported clicked().
connection_pick(a, ev, type, i) ==
    LET node == IF type = "Note" THEN a.note_nodes[i] ELSE a.code_nodes[i]
        scaled_position == ToScreen(node.position, a.offset, a.zoom)
        scaled_size == ScaleSize(node.size, a.zoom)
        side == determine_closest_side(scaled_position, scaled_size, ev.pos)
    IN IF a.connection_start # <<>>
       THEN LET cs == a.connection_start[1]
                pushed ==
                    [a EXCEPT !.connections =
                                  Append(@, [start_node_id |-> cs.id,
                                             start_node_type |-> cs.type,
                                             start_side |-> cs.side,
                                             end_node_id |-> node.id,
                                             end_node_type |-> type,
                                             end_side |-> side]),
                              !.connection_start = <<>>]
            IN record_state(pushed)
       ELSE [a EXCEPT !.connection_start =
                          <<[id |-> node.id, type |-> type, side |-> side]>>]

\* "Arrow Connection Logic": the note loop, then the code loop.
ConnectPhase(a, ev) ==
    IF a.arrow_connection_active /\ ev.clicked
    THEN IF ev.target.w = "note" /\ ev.target.i \in 1..Len(a.note_nodes)
         THEN connection_pick(a, ev, "Note", ev.target.i)
         ELSE IF ev.target.w = "code" /\ ev.target.i \in 1..Len(a.code_nodes)
         THEN connection_pick(a, ev, "Code", ev.target.i)
         ELSE a
    ELSE a

\* canvas pan without the test of the three mode flags
PanPhase_in_every_mode(a, ev) ==
    LET onCanvas == ev.target.w = "canvas"
        started == IF onCanvas /\ ev.drag_started
                   THEN [a EXCEPT !.drag_start = ev.pos, !.dragging = TRUE]
                   ELSE a
        stopped == IF onCanvas /\ ev.drag_stopped
                   THEN [started EXCEPT !.dragging = FALSE]
                   ELSE started
    IN IF stopped.dragging
       THEN [stopped EXCEPT !.offset = Add(@, Sub(ev.pos, stopped.drag_start)),
                            !.drag_start = ev.pos]
       ELSE stopped

\* "Dragging and Scrolling Logic": canvas pan.
PanPhase(a, ev) ==
    IF ~a.marker_active /\ ~a.eraser_active /\ ~a.arrow_connection_active
    THEN LET onCanvas == ev.target.w = "canvas"
             started == IF onCanvas /\ ev.drag_started
                        THEN [a EXCEPT !.drag_start = ev.pos, !.dragging = TRUE]
                        ELSE a
             stopped == IF onCanvas /\ ev.drag_stopped
                        THEN [started EXCEPT !.dragging = FALSE]
                        ELSE started
         IN IF stopped.dragging
            THEN [stopped EXCEPT !.offset = Add(@, Sub(ev.pos, stopped.drag_start)),
                                 !.drag_start = ev.pos]
            ELSE stopped
    ELSE a

\* "Zoom Logic": zoom *= 1.0 + scroll * 0.001, then clamp(0.4, 4.0).
clamp(v, lo, hi) == IF v < lo THEN lo ELSE IF v > hi THEN hi ELSE v

\* zoom logic that limits the zoom from above only (min(4.0) for clamp)
ZoomPhase_no_lower_clamp(a, ev) ==
    IF ev.scroll # 0
    THEN [a EXCEPT !.zoom =
              IF (@ * (ScrollDen + ev.scroll)) \div ScrollDen > MaxZoom
              THEN MaxZoom ELSE (@ * (ScrollDen + ev.scroll)) \div ScrollDen]
    ELSE a

ZoomPhase(a, ev) ==
    IF ev.scroll # 0
    THEN [a EXCEPT !.zoom =
              clamp((@ * (ScrollDen + ev.scroll)) \div ScrollDen, MinZoom, MaxZoom)]
    ELSE a

\* ------------------------------------------------------------- text
\* A String is the sequence of its characters.
IsSpace(c) == c \in {" ", "\n", "\r"}

\* str::replace("\r\n", "\n")
RECURSIVE replace_crlf(_)
replace_crlf(s) ==
    IF s = <<>> THEN <<>>
    ELSE IF Len(s) >= 2 /\ s[1] = "\r" /\ s[2] = "\n"
    THEN <<"\n">> \o replace_crlf(SubSeq(s, 3, Len(s)))
    ELSE <<Head(s)>> \o replace_crlf(Tail(s))

\* str::trim_end
RECURSIVE trim_end(_)
trim_end(s) ==
    IF s = <<>> \/ ~IsSpace(s[Len(s)]) THEN s
    ELSE trim_end(SubSeq(s, 1, Len(s) - 1))

\* str::lines: the text cut at every "\n", a final line ending optional;
\* line is the part of the current line read so far.
RECURSIVE lines_from(_, _)
lines_from(s, line) ==
    IF s = <<>> THEN (IF line = <<>> THEN <<>> ELSE <<line>>)
    ELSE IF Head(s) = "\n"
    THEN <<IF line # <<>> /\ line[Len(line)] = "\r"
           THEN SubSeq(line, 1, Len(line) - 1) ELSE line>>
         \o lines_from(Tail(s), <<>>)
    ELSE lines_from(Tail(s), Append(line, Head(s)))

lines(s) == lines_from(s, <<>>)

\* [&str]::join("\n")
RECURSIVE join(_)
join(ls) ==
    IF ls = <<>> THEN <<>>
    ELSE IF Len(ls) = 1 THEN ls[1]
    ELSE ls[1] \o <<"\n">> \o join(Tail(ls))

\* .windows(n).position(|window| window.join("\n").trim_end() == snippet)
\* .map(|i| i + 1), for n >= 1: the windows from the one that starts at
\* line i (1-based) on.
RECURSIVE window_position(_, _, _, _)
window_position(file_lines, n, snippet, i) ==
    IF i + n - 1 > Len(file_lines) THEN <<>>
    ELSE IF trim_end(join(SubSeq(file_lines, i, i + n - 1))) = snippet THEN <<i>>
    ELSE window_position(file_lines, n, snippet, i + 1)

\* The snippet of a code node as Lock looks for it, and the number of its
\* lines: the size of the windows.
snippet_of(code) == trim_end(replace_crlf(code))
window_size(code) == Len(lines(snippet_of(code)))

\* node.line_offset of Lock, for a file that was read and a window size
\* that is not zero.
find_line_offset(code, contents) ==
    window_position(lines(replace_crlf(contents)), window_size(code), snippet_of(code), 1)

\* fs::read_to_string(project_root.join(&node.file_path)) returns the file:
\* there is a project root, the path names a file (an empty path names the
\* root folder itself) and the read succeeds.
file_read(a, ev, node) == a.project_root # <<>> /\ node.file_path # <<>> /\ ev.io_ok

\* the body of a node that moves by the screen delta, not divided by zoom
node_body_screen_delta(a, ev, kind, nodes, i) ==
    LET node == nodes[i]
        mine == ev.target.i = i
        lock_button == IF kind = "note" THEN "note_lock" ELSE "code_lock"
        started == IF ev.target.w = kind /\ mine /\ ev.drag_started
                   THEN [node EXCEPT !.is_dragging = TRUE] ELSE node
        stopped == IF ev.target.w = kind /\ mine /\ ev.drag_stopped
                   THEN [started EXCEPT !.is_dragging = FALSE] ELSE started
        delta == IF ev.target.w = kind /\ mine THEN ev.drag_delta ELSE <<0, 0>>
        moved == IF stopped.is_dragging
                 THEN [stopped EXCEPT !.position = Add(@, delta)]
                 ELSE stopped
        lock == ev.target.w = lock_button /\ mine /\ ev.clicked /\ ~node.locked
        locked == IF lock
                  THEN IF kind = "code"
                       THEN [moved EXCEPT !.locked = TRUE,
                                          !.line_offset =
                                              IF file_read(a, ev, node)
                                              THEN find_line_offset(node.code, ev.file)
                                              ELSE @]
                       ELSE [moved EXCEPT !.locked = TRUE]
                  ELSE moved
    IN locked

\* a body whose drag unlocks the node it picks up
node_body_drag_unlocks(a, ev, kind, nodes, i) ==
    LET node == nodes[i]
        mine == ev.target.i = i
        lock_button == IF kind = "note" THEN "note_lock" ELSE "code_lock"
        started == IF ev.target.w = kind /\ mine /\ ev.drag_started
                   THEN [node EXCEPT !.is_dragging = TRUE, !.locked = FALSE] ELSE node
        stopped == IF ev.target.w = kind /\ mine /\ ev.drag_stopped
                   THEN [started EXCEPT !.is_dragging = FALSE] ELSE started
        delta == IF ev.target.w = kind /\ mine THEN ev.drag_delta ELSE <<0, 0>>
        moved == IF stopped.is_dragging
                 THEN [stopped EXCEPT !.position = Add(@, UnscaleDelta(delta, a.zoom))]
                 ELSE stopped
        lock == ev.target.w = lock_button /\ mine /\ ev.clicked /\ ~node.locked
        locked == IF lock
                  THEN IF kind = "code"
                       THEN [moved EXCEPT !.locked = TRUE,
                                          !.line_offset =
                                              IF file_read(a, ev, node)
                                              THEN find_line_offset(node.code, ev.file)
                                              ELSE @]
                       ELSE [moved EXCEPT !.locked = TRUE]
                  ELSE moved
    IN locked

\* The body of one node: drag_started / drag_stopped / is_dragging and the
\* Lock button.  kind is "note" or "code".
node_body(a, ev, kind, nodes, i) ==
    LET node == nodes[i]
        mine == ev.target.i = i
        lock_button == IF kind = "note" THEN "note_lock" ELSE "code_lock"
        started == IF ev.target.w = kind /\ mine /\ ev.drag_started
                   THEN [node EXCEPT !.is_dragging = TRUE] ELSE node
        stopped == IF ev.target.w = kind /\ mine /\ ev.drag_stopped
                   THEN [started EXCEPT !.is_dragging = FALSE] ELSE started
        delta == IF ev.target.w = kind /\ mine THEN ev.drag_delta ELSE <<0, 0>>
        moved == IF stopped.is_dragging
                 THEN [stopped EXCEPT !.position = Add(@, UnscaleDelta(delta, a.zoom))]
                 ELSE stopped
        lock == ev.target.w = lock_button /\ mine /\ ev.clicked /\ ~node.locked
        locked == IF lock
                  THEN IF kind = "code"
                       THEN [moved EXCEPT !.locked = TRUE,
                                          !.line_offset =
                                              IF file_read(a, ev, node)
                                              THEN find_line_offset(node.code, ev.file)
                                              ELSE @]
                       ELSE [moved EXCEPT !.locked = TRUE]
                  ELSE moved
    IN locked

\* egui::DragValue::new(&mut node.size.x).range(1.0..=400.0) and the one for
\* size.y: the value the widget was given (ev.resize = <<axis, value>>) is
\* stored clamped to the range.
resize_node_unclamped(node, ev, field, i) ==
    IF ev.target.w = field /\ ev.target.i = i /\ ev.resize # <<>>
    THEN [node EXCEPT !.size[ev.resize[1]] = ev.resize[2]]
    ELSE node

resize_node(node, ev, field, i) ==
    IF ev.target.w = field /\ ev.target.i = i /\ ev.resize # <<>>
    THEN [node EXCEPT !.size[ev.resize[1]] = clamp(ev.resize[2], MinSize, MaxSize)]
    ELSE node

\* TextEdit::singleline(&mut node.file_path) and TextEdit::multiline(&mut
\* node.code) of an unlocked code node: the text the widget was given
\* (ev.typed) is stored.
type_text(node, ev, i) ==
    IF ev.target.i = i /\ ev.typed # <<>> /\ ~node.locked
    THEN IF ev.target.w = "code_path" THEN [node EXCEPT !.file_path = ev.typed[1]]
         ELSE IF ev.target.w = "code_text" THEN [node EXCEPT !.code = ev.typed[1]]
         ELSE node
    ELSE node

\* "Note Nodes Rendering", the inner block of the while loop and the
\* record_state after it, for the one widget the frame's pointer event
\* belongs to.
note_item(a, ev) ==
    LET i == ev.target.i
        inBody == /\ ev.target.w \in {"note", "note_o", "note_lock", "note_size"}
                  /\ i \in 1..Len(a.note_nodes)
        drag_ended == ev.target.w = "note" /\ ev.drag_stopped
        lock_changed == ev.target.w = "note_lock" /\ ev.clicked
                        /\ ~a.note_nodes[i].locked
        changed == [a EXCEPT
                      !.note_nodes[i] =
                          resize_node(node_body(a, ev, "note", a.note_nodes, i),
                                      ev, "note_size", i),
                      !.selected_node =
                          IF ev.target.w = "note_o" /\ ev.clicked
                          THEN IF @ = <<i - 1>> THEN <<>> ELSE <<i - 1>>
                          ELSE @]
    IN IF ~inBody THEN a
       ELSE IF drag_ended \/ lock_changed THEN record_state(changed)
       ELSE changed

\* Forward in the menu of note k (0-based).  The loop goes on to index
\* k + 1, where the note now is and is still the selected one: its body and
\* its menu (the same Area id, "note_menu_<id>") are laid out again in the
\* frame, and the Forward button, with the id of the one clicked, reports
\* the click again.
RECURSIVE note_forward(_, _)
note_forward(a, k) ==
    IF k < Len(a.note_nodes) - 1
    THEN note_forward([record_state(a) EXCEPT
                          !.note_nodes = Swap(@, k + 1, k + 2),
                          !.selected_node = <<k + 1>>], k + 1)
    ELSE a

\* "Note Nodes Rendering", the floating menu of the selected note (0-based
\* index k).
note_menu(a, ev) ==
    LET k == IF a.selected_node # <<>> THEN a.selected_node[1] ELSE -1
        n == Len(a.note_nodes)
    IN IF ~(ev.target.w = "menu" /\ ev.clicked /\ k >= 0 /\ k < n) THEN a
       ELSE IF ev.target.b = "Backward" /\ k > 0
       THEN [record_state(a) EXCEPT
                !.note_nodes = Swap(@, k + 1, k),
                !.selected_node = <<k - 1>>]
       ELSE IF ev.target.b = "Forward" /\ k < n - 1
       THEN note_forward(a, k)
       ELSE IF ev.target.b = "Delete"
       THEN [record_state(a) EXCEPT
                !.note_nodes = RemoveAt(@, k + 1),
                !.selected_node = <<>>]
       ELSE a

\* "Note Nodes Rendering": the while loop.
NoteNodesPhase(a, ev) == note_menu(note_item(a, ev), ev)

\* "Code Nodes Rendering": for i in 0..self.code_nodes.len().  The range is
\* fixed when the loop starts: after remove(i) the loop still runs up to the
\* old length and indexes self.code_nodes[old_len - 1], out of bounds,
\* unless the removed node was the last one.
code_item(a, ev) ==
    LET i == ev.target.i
        inBody == /\ ev.target.w \in {"code", "code_o", "code_lock", "code_size",
                                     "code_path", "code_text"}
                  /\ i \in 1..Len(a.code_nodes)
        code_index == i - 1 + Len(a.note_nodes)
        drag_ended == ev.target.w = "code" /\ ev.drag_stopped
        lock_changed == ev.target.w = "code_lock" /\ ev.clicked
                        /\ ~a.code_nodes[i].locked
        changed == [a EXCEPT
                      !.code_nodes[i] =
                          resize_node(
                              type_text(node_body(a, ev, "code", a.code_nodes, i), ev, i),
                              ev, "code_size", i),
                      !.selected_node =
                          IF ev.target.w = "code_o" /\ ev.clicked
                          THEN IF @ = <<code_index>> THEN <<>> ELSE <<code_index>>
                          ELSE @,
                      \* slice::windows(0) panics
                      !.crashed =
                          @ \/ (/\ lock_changed
                                /\ file_read(a, ev, a.code_nodes[i])
                                /\ window_size(a.code_nodes[i].code) = 0)]
    IN IF ~inBody THEN a
       ELSE IF drag_ended \/ lock_changed THEN record_state(changed)
       ELSE changed

\* Forward in the menu of code node k (0-based among the code nodes): as
\* for a note, the for loop meets the node and its menu again at k + 1.
RECURSIVE code_forward(_, _)
code_forward(a, k) ==
    IF k < Len(a.code_nodes) - 1
    THEN code_forward([record_state(a) EXCEPT
                          !.code_nodes = Swap(@, k + 1, k + 2),
                          !.selected_node = <<k + 1 + Len(a.note_nodes)>>], k + 1)
    ELSE a

\* The floating menu of the selected code node (0-based index k among the
\* code nodes).
code_menu(a, ev) ==
    LET notes == Len(a.note_nodes)
        n == Len(a.code_nodes)
        k == IF a.selected_node # <<>> THEN a.selected_node[1] - notes ELSE -1
    IN IF ~(ev.target.w = "menu" /\ ev.clicked /\ k >= 0 /\ k < n) THEN a
       ELSE IF ev.target.b = "Backward" /\ k > 0
       THEN [record_state(a) EXCEPT
                !.code_nodes = Swap(@, k + 1, k),
                !.selected_node = <<k - 1 + notes>>]
       ELSE IF ev.target.b = "Forward" /\ k < n - 1
       THEN code_forward(a, k)
       ELSE IF ev.target.b = "Delete"
       THEN [record_state(a) EXCEPT
                !.code_nodes = RemoveAt(@, k + 1),
                !.selected_node = <<>>,
                !.crashed = @ \/ (k < n - 1)]
       ELSE a

CodeNodesPhase(a, ev) == code_menu(code_item(a, ev), ev)

\* new_pos of the "Note Node" / "Code Node" buttons: the visible centre in
\* document space plus radius * (cos, sin) of steps * 45 degrees.
spawn_position(a, steps) ==
    LET canvas_center == ToDocument(ScreenCenter, a.offset, a.zoom)
        radius == (SpawnRadius * ZoomDen) \div a.zoom
        oct == (steps % 8) + 1
    IN <<canvas_center[1] + (radius * Cos8[oct]) \div TrigDen,
         canvas_center[2] + (radius * Sin8[oct]) \div TrigDen>>

\* a New that leaves the history stacks as they are
new_document_keeps_history(a) ==
    record_state([a EXCEPT !.note_nodes = <<>>, !.code_nodes = <<>>,
                           !.connections = <<>>, !.strokes = <<>>,
                           !.marker_active = FALSE, !.eraser_active = FALSE,
                           !.arrow_connection_active = FALSE,
                           !.connection_start = <<>>, !.selected_node = <<>>,
                           !.zoom = DefaultZoom, !.offset = <<0, 0>>])

new_document(a) ==
    record_state([a EXCEPT !.note_nodes = <<>>, !.code_nodes = <<>>,
                           !.connections = <<>>, !.strokes = <<>>,
                           !.marker_active = FALSE, !.eraser_active = FALSE,
                           !.arrow_connection_active = FALSE,
                           !.connection_start = <<>>, !.selected_node = <<>>,
                           !.zoom = DefaultZoom, !.offset = <<0, 0>>,
                           !.undo_stack = <<>>, !.redo_stack = <<>>])

add_code_node(a, ev) ==
    LET rooted == IF a.project_root = <<>> /\ ev.picked
                  THEN [a EXCEPT !.project_root = <<"root">>] ELSE a
    IN IF rooted.project_root = <<>> THEN rooted
       ELSE LET pushed ==
                    [rooted EXCEPT
                       !.code_nodes = Append(@,
                           [id |-> a.next_note_id,
                            position |-> spawn_position(a, a.next_note_id),
                            size |-> CodeSize, file_path |-> <<>>,
                            code |-> <<>>, is_dragging |-> FALSE,
                            locked |-> FALSE, line_offset |-> <<>>])]
            IN [record_state(pushed) EXCEPT !.next_note_id = @ + 1]

add_note_node(a) ==
    LET pushed ==
            [a EXCEPT
               !.note_nodes = Append(@,
                   [id |-> a.next_note_id,
                    position |-> spawn_position(a, Len(a.note_nodes)),
                    size |-> NoteSize, is_dragging |-> FALSE,
                    locked |-> FALSE])]
    IN [record_state(pushed) EXCEPT !.next_note_id = @ + 1]

\* the Marker button without "self.eraser_active = false"
toggle_marker_keeps_eraser(a) ==
    [a EXCEPT !.marker_active = ~@]

toggle_marker(a) ==
    [a EXCEPT !.marker_active = ~@, !.eraser_active = FALSE]

toggle_eraser(a) ==
    [a EXCEPT !.eraser_active = ~@, !.marker_active = FALSE]

\* an Arrow button that leaves the pending start in place
toggle_arrow_keeps_start(a) ==
    [a EXCEPT !.arrow_connection_active = ~@]

toggle_arrow(a) ==
    [a EXCEPT !.arrow_connection_active = ~@,
              !.connection_start = IF a.arrow_connection_active THEN <<>> ELSE @]

\* "Tools Overlay": the button the frame's click belongs to.
ToolbarPhase(a, ev) ==
    LET b == ev.target.b
        cmd == a
    IN IF ~(ev.target.w = "tool" /\ ev.clicked) THEN a
       ELSE IF b = "Tools" THEN [cmd EXCEPT !.tools_open = ~@]
       ELSE IF ~a.tools_open THEN a
       ELSE CASE b = "New" -> new_document(cmd)
              [] b = "Open" -> IF ev.picked THEN load_project(cmd, ev.io_ok) ELSE cmd
              [] b = "Undo" -> undo(cmd)
              [] b = "Redo" -> redo(cmd)
              [] b = "Code Node" -> add_code_node(cmd, ev)
              [] b = "Note Node" -> add_note_node(cmd)
              [] b = "Marker" -> toggle_marker(cmd)
              [] b = "Eraser" -> toggle_eraser(cmd)
              [] b = "Arrow" -> toggle_arrow(cmd)
              [] b = "Reset Zoom" -> [cmd EXCEPT !.zoom = DefaultZoom]
              [] b = "Save Project" ->
                     IF ev.picked THEN save_project(cmd, ev.io_ok) ELSE cmd

LiveIds(a) ==
    {a.note_nodes[k].id : k \in 1..Len(a.note_nodes)}
        \cup {a.code_nodes[k].id : k \in 1..Len(a.code_nodes)}

\* ------------------------------------------------------------ one frame
\* App::update.  A panic ends the frame where it happens.
Frame(a, ev) ==
    LET begun == IF ev.released
                 THEN [a EXCEPT !.last_cmd =
                          IF ~ev.clicked THEN "drag"
                          ELSE IF ev.target.w \in {"tool", "menu"} THEN ev.target.b
                          ELSE ev.target.w,
                                !.ids_seen = @ \cup LiveIds(a)]
                 ELSE a
        s1 == PreviewPhase(begun, ev)
        s2 == MarkerPhase(s1, ev)
        s3 == EraserPhase(s2, ev)
        s4 == ConnectPhase(s3, ev)
        s5 == PanPhase(s4, ev)
        s6 == ZoomPhase(s5, ev)
        s7 == NoteNodesPhase(s6, ev)
        s8 == CodeNodesPhase(s7, ev)
        s9 == ToolbarPhase(s8, ev)
    IN IF s1.crashed THEN s1 ELSE s9

\* ------------------------------------------------- the frames of a run

IdleEv ==
    [primary_down |-> FALSE, pos |-> pointer.pos, target |-> NoTarget,
     clicked |-> FALSE, drag_started |-> FALSE, drag_stopped |-> FALSE,
     drag_delta |-> <<0, 0>>, scroll |-> 0, picked |-> FALSE,
     io_ok |-> FALSE, file |-> <<>>, released |-> FALSE, resize |-> <<>>,
     typed |-> <<>>]

Widget(w, i, b) == [w |-> w, i |-> i, b |-> b]

\* The widgets update laid out for the state: what a press can land on.
Widgets ==
    {Widget("canvas", 0, "")}
    \cup {Widget("note", i, "") : i \in 1..Len(note_nodes)}
    \cup {Widget("note_o", i, "") : i \in 1..Len(note_nodes)}
    \cup {Widget("note_lock", i, "") : i \in {k \in 1..Len(note_nodes) : ~note_nodes[k].locked}}
    \cup {Widget("code", i, "") : i \in 1..Len(code_nodes)}
    \cup {Widget("code_o", i, "") : i \in 1..Len(code_nodes)}
    \cup {Widget("code_lock", i, "") : i \in {k \in 1..Len(code_nodes) : ~code_nodes[k].locked}}
    \cup {Widget("menu", 0, b) : b \in
            IF selected_node # <<>> /\ selected_node[1] < Len(note_nodes) + Len(code_nodes)
            THEN MenuButtons ELSE {}}
    \cup {Widget("tool", 0, b) : b \in IF tools_open THEN ToolButtons ELSE {"Tools"}}

\* Where a press on widget t can be: inside the node's rectangle (near its
\* top edge or near its right edge) for a node, anywhere for the canvas and
\* while a pen is active; the position is not read otherwise.
PressPts(t) ==
    IF t.w \in {"note", "code"}
    THEN LET node == IF t.w = "note" THEN note_nodes[t.i] ELSE code_nodes[t.i]
             p == ToScreen(node.position, offset, zoom)
             sz == ScaleSize(node.size, zoom)
         IN {<<p[1] + sz[1] \div 2, p[2] + 1>>, <<p[1] + sz[1] - 1, p[2] + sz[2] \div 2>>}
    ELSE IF t.w = "canvas" \/ marker_active \/ eraser_active
    THEN ScreenPts
    ELSE {ScreenCenter}

\* Sense::click_and_drag() of a node, Sense::drag() of the canvas (which is
\* Sense::empty() while arrow_connection_active).
SensesDrag(t) ==
    \/ t.w \in {"note", "code"}
    \/ t.w = "canvas" /\ ~arrow_connection_active

UsesDialog(t) == t.w = "tool" /\ t.b \in {"Open", "Save Project", "Code Node"}
UsesFile(t) == \/ t.w = "tool" /\ t.b \in {"Open", "Save Project"}
               \/ t.w = "code_lock"

\* The part of the state space explored: cap holds the undo depth, the
\* number of ids handed out, of nodes and of strokes a specification
\* goes up to, and the files Lock can meet in it.
Caps(depth) ==
    [undo |-> depth, ids |-> MaxId, nodes |-> MaxNodes, strokes |-> MaxStrokes,
     files |-> Files]

WithinBounds(r, cap) ==
    /\ Len(r.undo_stack) <= cap.undo
    /\ r.next_note_id <= FirstId + cap.ids
    /\ Len(r.note_nodes) + Len(r.code_nodes) <= cap.nodes
    /\ Len(r.connections) <= MaxConns
    /\ Len(r.strokes) <= cap.strokes
    /\ r.current_stroke # <<>> => Len(r.current_stroke[1].points) <= MaxPts
    /\ r.moves <= MaxMoves

EndFrame(r, ptr) ==
    [r EXCEPT !.pointer = ptr]

Step(ev, ptr, cap) ==
    \E r \in {EndFrame(Frame(App, ev), ptr)} :
        WithinBounds(r, cap)
        /\ Commit([r EXCEPT !.gesture_from = NoSnapshot, !.trail = <<>>])

\* A frame with the pointer up and nothing happening.
FrameIdleIn(cap) ==
    /\ ~crashed /\ ~pointer.down
    /\ Step(IdleEv, pointer, cap)

\* A frame in which a size DragValue of a node is given a value.
FrameResizeIn(cap) ==
    /\ ~crashed /\ ~pointer.down
    /\ \E t \in {Widget("note_size", i, "") : i \in 1..Len(note_nodes)}
                 \cup {Widget("code_size", i, "") : i \in 1..Len(code_nodes)} :
       \E axis \in 1..2 :
       \E v \in SizeInputs :
          Step([IdleEv EXCEPT !.target = t, !.resize = <<axis, v>>], pointer, cap)

\* A frame in which the path field or the code field of an unlocked code
\* node is given a text.
FrameTypeIn(cap, paths, texts) ==
    /\ ~crashed /\ ~pointer.down
    /\ \E i \in {k \in 1..Len(code_nodes) : ~code_nodes[k].locked} :
       \/ \E path \in paths :
             Step([IdleEv EXCEPT !.target = Widget("code_path", i, ""),
                                 !.typed = <<path>>], pointer, cap)
       \/ \E text \in texts :
             Step([IdleEv EXCEPT !.target = Widget("code_text", i, ""),
                                 !.typed = <<text>>], pointer, cap)

\* A frame with a scroll delta.
FrameScrollIn(cap) ==
    /\ ~crashed /\ ~pointer.down
    /\ \E dy \in Scrolls : Step([IdleEv EXCEPT !.scroll = dy], pointer, cap)

\* The frame in which the primary button goes down on a widget; used is the
\* part of the interface a specification exercises, cap its bounds.
FramePressOn(used, cap) ==
    /\ ~crashed /\ ~pointer.down
    /\ \E t \in {u \in Widgets : (IF u.w = "tool" THEN u.b ELSE u.w) \in used} :
       /\ t.b = "Tools" => ~tools_open       \* the toolbar is left open
       /\ \E p \in PressPts(t) :
          \E r \in {EndFrame(Frame(App, [IdleEv EXCEPT !.primary_down = TRUE,
                                                       !.pos = p, !.target = t]),
                             [down |-> TRUE, pos |-> p, target |-> t,
                              moved |-> FALSE])} :
             /\ WithinBounds(r, cap)
             /\ Commit([r EXCEPT !.gesture_from = take_snapshot(App),
                                  !.trail = <<ToDocument(p, offset, zoom)>>])

\* A frame in which the held pointer moves.
FrameMoveIn(cap) ==
    /\ ~crashed /\ pointer.down
    /\ SensesDrag(pointer.target) \/ marker_active \/ eraser_active
    /\ \E d \in Deltas :
       \E drags \in {SensesDrag(pointer.target)} :
       \E r \in {EndFrame(Frame(App, [IdleEv EXCEPT
                                        !.primary_down = TRUE,
                                        !.pos = Add(pointer.pos, d),
                                        !.target = pointer.target,
                                        !.drag_started = drags /\ ~pointer.moved,
                                        !.drag_delta = IF drags THEN d ELSE <<0, 0>>]),
                          [pointer EXCEPT !.pos = Add(@, d), !.moved = TRUE])} :
       \E counted \in {[r EXCEPT !.moves = @ + 1,
                                  !.trail = Append(@, ToDocument(Add(pointer.pos, d),
                                                                 offset, zoom))]} :
          WithinBounds(counted, cap) /\ Commit(counted)

\* The frame in which the primary button goes up: a click if the pointer did
\* not move, the end of a drag if it did.
FrameReleaseIn(cap) ==
    /\ ~crashed /\ pointer.down
    /\ \E picked \in IF UsesDialog(pointer.target) THEN BOOLEAN ELSE {FALSE} :
       \E io_ok \in IF UsesFile(pointer.target) THEN BOOLEAN ELSE {FALSE} :
       \E file \in IF pointer.target.w = "code_lock" THEN cap.files ELSE {<<>>} :
          Step([IdleEv EXCEPT !.target = pointer.target, !.released = TRUE,
                              !.clicked = ~pointer.moved,
                              !.drag_stopped = pointer.moved /\ SensesDrag(pointer.target),
                              !.picked = picked, !.io_ok = io_ok, !.file = file],
               PointerUp, cap)

\* The process is started again (main: MyApp::default()); the file stays.
Restart ==
    /\ disk # <<>>
    /\ Commit(DefaultApp @@
              [MARKER_STATE_RECORDED |-> FALSE, ERASER_STATE_RECORDED |-> FALSE,
               crashed |-> FALSE, disk |-> disk, pointer |-> PointerUp,
               gesture_from |-> NoSnapshot, redo_from |-> "none",
               last_cmd |-> "", ids_seen |-> {}, moves |-> moves,
               trail |-> <<>>])

\* The state after construction: MyApp::default(), the statics false, no
\* document file yet.
Init ==
    /\ zoom = DefaultApp.zoom /\ offset = DefaultApp.offset
    /\ dragging = DefaultApp.dragging /\ drag_start = DefaultApp.drag_start
    /\ tools_open = DefaultApp.tools_open
    /\ next_note_id = DefaultApp.next_note_id
    /\ note_nodes = DefaultApp.note_nodes /\ code_nodes = DefaultApp.code_nodes
    /\ connections = DefaultApp.connections
    /\ marker_active = DefaultApp.marker_active
    /\ eraser_active = DefaultApp.eraser_active
    /\ current_stroke = DefaultApp.current_stroke
    /\ strokes = DefaultApp.strokes /\ project_root = DefaultApp.project_root
    /\ arrow_connection_active = DefaultApp.arrow_connection_active
    /\ connection_start = DefaultApp.connection_start
    /\ undo_stack = DefaultApp.undo_stack /\ redo_stack = DefaultApp.redo_stack
    /\ selected_node = DefaultApp.selected_node
    /\ MARKER_STATE_RECORDED = FALSE /\ ERASER_STATE_RECORDED = FALSE
    /\ crashed = FALSE /\ disk = <<>> /\ pointer = PointerUp
    /\ gesture_from = NoSnapshot /\ redo_from = "none" /\ last_cmd = ""
    /\ ids_seen = {} /\ moves = 0 /\ trail = <<>>

\* Editing and history in one session: notes and code nodes created,
\* locked, reordered, deleted; undo, redo, New.
FrameIdle == FrameIdleIn(Caps(MaxUndo))
FramePress ==
    FramePressOn({"note_o", "note_lock", "code_o", "menu", "Tools", "New", "Undo",
                  "Redo", "Note Node", "Code Node"}, Caps(MaxUndo))
FrameRelease == FrameReleaseIn(Caps(MaxUndo))

Next ==
    \/ FrameIdle
    \/ FramePress
    \/ FrameRelease

Spec == Init /\ [][Next]_vars

\* Dragging notes, with lock, undo and redo.
FramePressDrag ==
    FramePressOn({"note", "note_lock", "Tools", "Undo", "Redo", "Note Node"}, Caps(MaxUndo))
FrameMove == FrameMoveIn(Caps(MaxUndo))

NextDrag ==
    \/ FrameIdle
    \/ FramePressDrag
    \/ FrameMove
    \/ FrameRelease

SpecDrag == Init /\ [][NextDrag]_vars

\* Connect mode: picks on notes, with notes created, reordered and deleted.
FrameIdleConnect == FrameIdleIn(Caps(MaxUndoConnect))
FramePressConnect ==
    FramePressOn({"note", "note_o", "menu", "Tools", "Note Node", "Arrow"},
                 Caps(MaxUndoConnect))
FrameReleaseConnect == FrameReleaseIn(Caps(MaxUndoConnect))

NextConnect ==
    \/ FrameIdleConnect
    \/ FramePressConnect
    \/ FrameReleaseConnect

SpecConnect == Init /\ [][NextConnect]_vars

\* Connect mode over both kinds of node: picks on notes and code nodes.
FramePressLink ==
    FramePressOn({"note", "code", "Tools", "Note Node", "Code Node", "Arrow"},
                 Caps(MaxUndoConnect))

NextLink ==
    \/ FrameIdleConnect
    \/ FramePressLink
    \/ FrameReleaseConnect

SpecLink == Init /\ [][NextLink]_vars

\* The pens and the mode toggles: Marker, Eraser, Arrow, drawing and erasing
\* on the canvas, undo, redo, New.
FramePressModes ==
    FramePressOn({"canvas", "Tools", "New", "Undo", "Redo", "Marker", "Eraser",
                  "Arrow"}, Caps(MaxUndo))

\* With every mode toggle in play one committed stroke is explored.
FrameReleaseModes == FrameRelease /\ Len(strokes') <= MaxModeStrokes

NextModes ==
    \/ FrameIdle
    \/ FramePressModes
    \/ FrameMove
    \/ FrameReleaseModes

\* Drawing and erasing: the two pens on the canvas, with undo.
FramePressPens ==
    FramePressOn({"canvas", "Tools", "Marker", "Eraser", "Undo"}, Caps(MaxUndo))

NextPens ==
    \/ FrameIdle
    \/ FramePressPens
    \/ FrameMove
    \/ FrameRelease

SpecPens == Init /\ [][NextPens]_vars

SpecModes == Init /\ [][NextModes]_vars

\* Every kind of gesture: a note dragged, the canvas panned, drawing and
\* erasing, with undo.
FramePressGesture ==
    FramePressOn({"canvas", "note", "Tools", "Note Node", "Marker", "Eraser",
                  "Undo"}, Caps(MaxUndo))

FrameReleaseGesture ==
    /\ FrameRelease
    /\ Len(strokes') <= MaxModeStrokes
    /\ Len(note_nodes') <= MaxGestureNodes

NextGesture ==
    \/ FrameIdle
    \/ FramePressGesture
    \/ FrameMove
    \/ FrameReleaseGesture

SpecGesture == Init /\ [][NextGesture]_vars

\* Sessions over one document file: notes created, undo, redo, Save, Open
\* and starting the program again.
FramePressDisk ==
    FramePressOn({"Tools", "Open", "Undo", "Redo", "Note Node", "Save Project"},
                 Caps(MaxUndo))

NextDisk ==
    \/ FrameIdle
    \/ FramePressDisk
    \/ FrameRelease
    \/ Restart

SpecDisk == Init /\ [][NextDisk]_vars

\* Zoom and pan.
FrameScroll == FrameScrollIn(Caps(MaxUndo))
FramePressView ==
    FramePressOn({"canvas", "Tools", "Reset Zoom", "Undo", "Redo", "New"}, Caps(MaxUndo))

NextView ==
    \/ FrameIdle
    \/ FrameScroll
    \/ FramePressView
    \/ FrameMove
    \/ FrameRelease

SpecView == Init /\ [][NextView]_vars

\* Zoom: scrolling, Reset Zoom and New, with snapshots taken at several
\* zoom levels and restored by undo and redo.
FramePressZoom ==
    FramePressOn({"Tools", "Reset Zoom", "Undo", "Redo", "New", "Note Node"},
                 Caps(MaxUndo))

FrameReleaseZoom == FrameRelease /\ Len(note_nodes') <= MaxZoomNodes

NextZoom ==
    \/ FrameIdle
    \/ FrameScroll
    \/ FramePressZoom
    \/ FrameReleaseZoom

SpecZoom == Init /\ [][NextZoom]_vars

\* ======================================================== the claims ====
\* The document and its history, as undo / redo see them.
History(a) ==
    [current |-> take_snapshot(a), undo_stack |-> a.undo_stack,
     redo_stack |-> a.redo_stack]

Top(stack) == stack[Len(stack)]

\* The step is the release frame of a recorded edit: a node was created,
\* locked, reordered, deleted or dropped after a drag, a connection or a
\* stroke was added.
ReleaseStep == pointer.down /\ ~pointer'.down /\ ~crashed'

CreateStep ==
    /\ last_cmd' \in {"Note Node", "Code Node"}
    /\ Len(note_nodes') + Len(code_nodes') = Len(note_nodes) + Len(code_nodes) + 1
LockStep == last_cmd' \in {"note_lock", "code_lock"}
DeleteStep == last_cmd' = "Delete"
ReorderStep ==
    /\ last_cmd' \in {"Backward", "Forward"}
    /\ note_nodes' # note_nodes \/ code_nodes' # code_nodes
DragStep == last_cmd' = "drag" /\ pointer.target.w \in {"note", "code"}
ConnectStep == Len(connections') = Len(connections) + 1
InkStep == Len(strokes') = Len(strokes) + 1

EditStep ==
    /\ ReleaseStep
    /\ \/ CreateStep \/ LockStep \/ DeleteStep \/ ReorderStep
       \/ DragStep \/ ConnectStep \/ InkStep

\* C1: undo / redo inverse law.  After every recorded edit taking the live
\* document from A to B, one undo() makes the live document A again, and a
\* following redo() makes it B.  A is the document when the gesture began
\* (the press of a drag or a stroke, the start of the frame otherwise).
C1_UndoRestoresBeforeEdit ==
    [][EditStep =>
          LET A == gesture_from
              B == take_snapshot(App')
          IN /\ take_snapshot(undo(App')) = A
             /\ take_snapshot(redo(undo(App'))) = B]_vars

\* C2: every recorded edit calls record_state once and after the mutation:
\* right after it the undo stack is one longer and its top is the live
\* document.
C2_RecordOnceAfterMutation ==
    [][EditStep =>
          /\ Len(undo_stack') = Len(undo_stack) + 1
          /\ Top(undo_stack') = take_snapshot(App')]_vars

\* C3 as claimed: the redo stack is non-empty only in states reached by
\* undo() with no record_state since.
C3_RedoOnlyAfterUndo ==
    redo_stack # <<>> => redo_from = "undo"

\* C3 as amended: right after record_state the redo stack is empty; it is
\* non-empty only in states reached, with no record_state since, by undo()
\* or by Open of a document that was saved with a non-empty redo stack.
C3_RedoOnlyAfterUndoOrOpen ==
    /\ redo_from = "none" => redo_stack = <<>>
    /\ redo_stack # <<>> => redo_from \in {"undo", "load"}

\* An edit recorded after an undo: the second note of a session that never
\* wrote a file was created over an undo stack the undo had emptied.
C3_Witness ==
    /\ last_cmd = "Note Node" /\ next_note_id = FirstId + 2
    /\ Len(undo_stack) = 1 /\ redo_stack = <<>> /\ disk = <<>>

\* C4: undo() and redo() are mutually inverse on the whole history (live
\* document, undo stack, redo stack) and keep len(undo) + len(redo).
C4_UndoRedoMutuallyInverse ==
    /\ undo_stack # <<>> =>
          /\ History(redo(undo(App))) = History(App)
          /\ Len(undo(App).undo_stack) + Len(undo(App).redo_stack)
                = Len(undo_stack) + Len(redo_stack)
    /\ redo_stack # <<>> =>
          /\ History(undo(redo(App))) = History(App)
          /\ Len(redo(App).undo_stack) + Len(redo(App).redo_stack)
                = Len(undo_stack) + Len(redo_stack)

\* Redo was just pressed and both stacks hold snapshots of different
\* documents.
C4_Witness ==
    /\ last_cmd = "Redo" /\ undo_stack # <<>> /\ redo_stack # <<>>
    /\ Top(undo_stack) # Top(redo_stack)
    /\ Top(undo_stack) # take_snapshot(App)

\* C5: undo() on an empty undo stack and redo() on an empty redo stack
\* change nothing at all.
C5_EmptyStackNoOp ==
    /\ undo_stack = <<>> => undo(App) = App
    /\ redo_stack = <<>> => redo(App) = App

\* Undo was just pressed over empty stacks, with a note on the canvas.
C5_Witness ==
    /\ last_cmd = "Undo" /\ undo_stack = <<>> /\ redo_stack = <<>>

\* C6: at most one of Marker, Eraser, Connecting is active in any state.
C6_AtMostOneMode ==
    Cardinality({m \in {"marker", "eraser", "arrow"} :
                    \/ m = "marker" /\ marker_active
                    \/ m = "eraser" /\ eraser_active
                    \/ m = "arrow" /\ arrow_connection_active}) <= 1

\* C7: Marker and Eraser are never both active; the Marker button leaves
\* the eraser off and the Eraser button leaves the marker off.
C7_MarkerEraserExclusive ==
    /\ ~(marker_active /\ eraser_active)
    /\ last_cmd = "Marker" => ~eraser_active
    /\ last_cmd = "Eraser" => ~marker_active

\* The Marker button switched the marker on in the frame in which the
\* eraser, until then active, recorded its release.
C7_Witness ==
    /\ last_cmd = "Marker" /\ marker_active
    /\ ERASER_STATE_RECORDED /\ Len(undo_stack) = 1 /\ strokes = <<>>

\* C8: the process never aborts; a pending connection start always refers to
\* a node that exists in the live collection of its kind.
PendingStartExists ==
    arrow_connection_active /\ connection_start # <<>> =>
        LET cs == connection_start[1]
        IN find(IF cs.type = "Note" THEN note_nodes ELSE code_nodes, cs.id) # 0

C8_NoAbort ==
    ~crashed /\ PendingStartExists

\* C9: live node ids are unique across both collections, and a node just
\* created has an id no node held earlier in the session.
UniqueLiveIds ==
    Cardinality(LiveIds(App)) = Len(note_nodes) + Len(code_nodes)

C9_IdsUniqueNeverReused ==
    /\ UniqueLiveIds
    /\ last_cmd = "Note Node" => Top(note_nodes).id \notin ids_seen
    /\ last_cmd = "Code Node" /\ project_root # <<>> =>
          Top(code_nodes).id \notin ids_seen

\* Rationals <<numerator, denominator>> with positive denominators.
RatLess(p, q) == p[1] * q[2] < q[1] * p[2]
\* p + q = m
RatSumIs(p, q, m) == p[1] * q[2] + q[1] * p[2] = m * p[2] * q[2]

\* The anchors the router puts on side sd of node id, in connection order,
\* each as the coordinate that runs along the side.  A connection that has
\* both ends on the side counts once, by its start anchor.
RECURSIVE side_anchors(_, _, _, _)
side_anchors(a, k, id, sd) ==
    IF k > Len(a.connections) THEN <<>>
    ELSE LET c == a.connections[k]
             axis == IF sd \in {"Top", "Bottom"} THEN 1 ELSE 2
             s == IF c.start_node_id = id /\ c.start_side = sd
                  THEN <<start_connection_point(a, k)[axis]>> ELSE <<>>
             e == IF c.end_node_id = id /\ c.end_side = sd /\ s = <<>>
                  THEN <<end_connection_point(a, k)[axis]>> ELSE <<>>
         IN s \o e \o side_anchors(a, k + 1, id, sd)

\* C10: the anchors of the connections attached to one side of a node are
\* strictly increasing along the side in connection order (so pairwise
\* distinct) and symmetric about the midpoint of the side.
C10_AnchorsDistributed ==
    \A id \in LiveIds(App) : \A sd \in Sides :
        LET type == IF find(note_nodes, id) # 0 THEN "Note" ELSE "Code"
            rect == node_rect(App, type, id)
            axis == IF sd \in {"Top", "Bottom"} THEN 1 ELSE 2
            ends == 2 * rect.pos[axis] + rect.size[axis]
            pts == side_anchors(App, 1, id, sd)
        IN /\ \A i \in 1..(Len(pts) - 1) : RatLess(pts[i], pts[i + 1])
           /\ \A i \in 1..Len(pts) : RatSumIs(pts[i], pts[Len(pts) + 1 - i], ends)

\* "Render Connections": (start_index, total_start) of connection k.
start_arrow_index(a, k) ==
    get_arrow_index(a.connections, a.connections[k].start_node_id,
                    a.connections[k].start_side, k)

\* "Render Connections": (end_index, total_end) of connection k.
end_arrow_index(a, k) ==
    get_arrow_index(a.connections, a.connections[k].end_node_id,
                    a.connections[k].end_side, k)

\* C11: for every connection in the store, the start anchor and the end
\* anchor are both computed with index < total (so total >= 1), which puts
\* the fraction (index + 1) / (total + 1) strictly between 0 and 1.
C11_AnchorsOffCorners ==
    \A k \in 1..Len(connections) :
        /\ start_arrow_index(App, k)[1] < start_arrow_index(App, k)[2]
        /\ end_arrow_index(App, k)[1] < end_arrow_index(App, k)[2]

\* The step is the release frame of a click on a node while Connect mode is
\* on.
PickStep ==
    /\ ~crashed /\ arrow_connection_active
    /\ pointer.down /\ ~pointer.moved /\ ~pointer'.down
    /\ pointer.target.w \in {"note", "code"}

MarkerReleaseStep ==
    /\ ~crashed /\ marker_active
    /\ pointer.down /\ ~pointer'.down
    /\ ~(pointer.target.w = "tool" /\ pointer.target.b \in {"New", "Undo", "Redo"})

\* The step is a pointer-up frame that follows no drawing.
MarkerRestStep ==
    /\ ~crashed /\ marker_active /\ ~eraser_active
    /\ ~pointer.down /\ ~pointer'.down

\* C13: with Marker active the release frame of a gesture appends exactly
\* one stroke, holding the gesture's points in drawing order, and pushes
\* exactly one snapshot; later pointer-up frames without new drawing append
\* no stroke and push no snapshot.
C13_MarkerGesture ==
    [][/\ MarkerReleaseStep =>
            /\ strokes' = Append(strokes, [points |-> trail])
            /\ undo_stack' = Append(undo_stack, take_snapshot(App'))
       /\ MarkerRestStep =>
            /\ strokes' = strokes
            /\ undo_stack' = undo_stack]_vars

\* A gesture of two points was just committed after an earlier stroke, its
\* snapshot went on top of the earlier one, and the pointer is up.
C13_Witness ==
    /\ marker_active /\ last_cmd = "drag" /\ ~pointer.down
    /\ Len(strokes) = 2 /\ Len(Top(strokes).points) = 2
    /\ Len(undo_stack) = 2 /\ Top(undo_stack).strokes = strokes
    /\ undo_stack[1].strokes = <<strokes[1]>>

\* The step is the release frame of a gesture made with Eraser active, on
\* the canvas or on a button that does not itself rewrite the history.
EraserReleaseStep ==
    /\ ~crashed /\ eraser_active
    /\ pointer.down /\ ~pointer'.down
    /\ ~(pointer.target.w = "tool" /\ pointer.target.b \in {"New", "Undo", "Redo"})

\* The step is a pointer-up frame with Eraser active that follows another
\* pointer-up frame: no erase gesture ends in it.
EraserRestStep ==
    /\ ~crashed /\ eraser_active /\ ~marker_active
    /\ ~pointer.down /\ ~pointer'.down

\* C14: while Eraser is active the eraser pushes exactly one snapshot on the
\* release frame of each erase gesture and none on a frame in which no
\* erase gesture ends, the frames right after the Eraser is switched on
\* included.
C14_EraserHistory ==
    [][/\ EraserReleaseStep => undo_stack' = Append(undo_stack, take_snapshot(App'))
       /\ EraserRestStep => undo_stack' = undo_stack]_vars

\* C15: on every frame in which the primary pointer is held down (a node
\* being dragged, the canvas being panned, the marker drawing, the eraser
\* erasing) the undo stack and the redo stack are unchanged.
C15_NoSnapshotMidGesture ==
    [][(~crashed /\ pointer'.down) =>
          /\ undo_stack' = undo_stack
          /\ redo_stack' = redo_stack]_vars

\* A note is being dragged (its second move frame) with both history
\* stacks holding a snapshot.
C15_Witness ==
    /\ pointer.down /\ pointer.moved /\ pointer.target.w = "note"
    /\ note_nodes # <<>> /\ note_nodes[1].is_dragging
    /\ note_nodes[1].position # gesture_from.note_nodes[1].position
    /\ undo_stack # <<>> /\ redo_stack # <<>>

\* p.distance(q) >= 10.0 / z, compared as squares.
AtLeastThreshold(p, q, z) ==
    (p[1] - q[1]) * (p[1] - q[1]) + (p[2] - q[2]) * (p[2] - q[2])
        >= ((EraserRadius * ZoomDen) * (EraserRadius * ZoomDen) + z * z - 1) \div (z * z)

\* The step is an eraser frame (the primary pointer is held down with
\* Eraser active) at a document point that is at least the threshold away
\* from every point of every committed stroke.
EraseFarStep ==
    /\ ~crashed /\ eraser_active /\ pointer'.down
    /\ \A k \in 1..Len(strokes) : \A j \in 1..Len(strokes[k].points) :
          AtLeastThreshold(strokes[k].points[j],
                           ToDocument(pointer'.pos, offset, zoom), zoom)

\* C16: an eraser frame at a point at least the threshold 10 / zoom away
\* from every point of every committed stroke leaves the committed strokes
\* exactly as they were.
C16_EraserLeavesUntouched ==
    [][EraseFarStep => strokes' = strokes]_vars

\* C17: in every state reached by scroll inputs of any sign and magnitude,
\* Reset Zoom, New, undo and redo, 0.4 <= zoom <= 4.0.
C17_ZoomClamp ==
    MinZoom <= zoom /\ zoom <= MaxZoom

\* Undo just restored a snapshot taken at the upper end of the range while
\* the view was at the lower end.
C17_Witness ==
    /\ last_cmd = "Undo" /\ zoom = MaxZoom
    /\ redo_stack # <<>> /\ Top(redo_stack).zoom = MinZoom

\* Creating and resizing nodes, with undo and redo.
FrameResize == FrameResizeIn(Caps(MaxUndo))
FramePressResize ==
    FramePressOn({"Tools", "Note Node", "Code Node", "Undo", "Redo"}, Caps(MaxUndo))

FrameReleaseResize ==
    FrameRelease /\ Len(note_nodes') + Len(code_nodes') <= MaxResizeNodes

NextResize ==
    \/ FrameIdle
    \/ FrameResize
    \/ FramePressResize
    \/ FrameReleaseResize

SpecResize == Init /\ [][NextResize]_vars

InRange(sz) ==
    /\ MinSize <= sz[1] /\ sz[1] <= MaxSize
    /\ MinSize <= sz[2] /\ sz[2] <= MaxSize

\* C18: in every state reached by creating nodes, giving their size fields
\* values, undo and redo, every note and every code node has its width and
\* its height between 1 and 400.
C18_SizeClamp ==
    /\ \A k \in 1..Len(note_nodes) : InRange(note_nodes[k].size)
    /\ \A k \in 1..Len(code_nodes) : InRange(code_nodes[k].size)

\* A node that was given an oversize width and an undersize height, in a
\* document brought back by redo.
C18_Witness ==
    /\ last_cmd = "Redo" /\ redo_from = "undo"
    /\ \E k \in 1..Len(code_nodes) : code_nodes[k].size = <<MaxSize, MinSize>>

\* One of Marker, Eraser and Connecting is active when the frame starts.
ModeActive == marker_active \/ eraser_active \/ arrow_connection_active

\* The frame is the click on a toolbar button that replaces the view with a
\* stored or a fresh one.
ViewReplacedStep ==
    /\ ReleaseStep /\ ~pointer.moved
    /\ pointer.target.w = "tool"
    /\ pointer.target.b \in {"Undo", "Redo", "New", "Open"}

\* C19: on any frame in which Marker, Eraser or Connecting is active, pointer
\* input leaves the pan offset unchanged.
C19_PanSuppressed ==
    [][ModeActive => offset' = offset]_vars

\* C19, amended: on any frame in which Marker, Eraser or Connecting is
\* active, the pan offset changes only by a click on Undo, Redo, New or Open;
\* pressing, moving and releasing the pointer anywhere else leaves it
\* unchanged.
C19_PanSuppressedForDrags ==
    [][(ModeActive /\ ~ViewReplacedStep) => offset' = offset]_vars

\* The pointer, pressed on the canvas, has moved while a mode is active.
C19_Witness ==
    /\ ModeActive /\ ~crashed
    /\ pointer.down /\ pointer.moved /\ pointer.target.w = "canvas"
    /\ Len(trail) >= 2

\* Connect mode with notes that can be pressed, dragged and released.
FramePressPickDrag ==
    FramePressOn({"note", "Tools", "Note Node", "Arrow"}, Caps(MaxUndo))

NextPickDrag ==
    \/ FrameIdle
    \/ FramePressPickDrag
    \/ FrameMove
    \/ FrameRelease

SpecPickDrag == Init /\ [][NextPickDrag]_vars

\* The node at index k of the collection stays where it is and does not
\* start to be dragged.
NodeHeld(before, after, k) ==
    (k <= Len(after) /\ after[k].id = before[k].id) =>
        /\ after[k].position = before[k].position
        /\ after[k].is_dragging => before[k].is_dragging

\* C20: on any frame with arrow_connection_active true, no node's position
\* changes and no node's is_dragging flag becomes true.
C20_NodeDragSuppressed ==
    [][arrow_connection_active =>
          /\ \A k \in 1..Len(note_nodes) : NodeHeld(note_nodes, note_nodes', k)
          /\ \A k \in 1..Len(code_nodes) : NodeHeld(code_nodes, code_nodes', k)]_vars

\* The frame is the click on button b of the floating menu of the selected
\* node.
MenuClick(b) ==
    /\ ~crashed /\ pointer.down /\ ~pointer'.down /\ ~pointer.moved
    /\ pointer.target.w = "menu" /\ pointer.target.b = b
    /\ selected_node # <<>>

\* The selected node is taken out of its collection and nothing else of the
\* document changes.
OnlySelectedRemoved ==
    LET k == selected_node[1]
        notes == Len(note_nodes)
    IN /\ IF k < notes
          THEN /\ note_nodes' = RemoveAt(note_nodes, k + 1)
               /\ code_nodes' = code_nodes
          ELSE /\ note_nodes' = note_nodes
               /\ code_nodes' = RemoveAt(code_nodes, k - notes + 1)
       /\ strokes' = strokes
       /\ connections' = connections

\* C21: deleting a node removes exactly the selected node from its
\* collection; the order of all other nodes of both kinds, the strokes and
\* the whole connections collection are unchanged, and the program goes on
\* with that document.
C21_DeleteRemovesOnlySelected ==
    [][MenuClick("Delete") => (~crashed' /\ OnlySelectedRemoved)]_vars

\* Documents with every kind of content written to the file and read back:
\* a code node with a line offset, a stroke, undo and redo
\* stacks.  Once the file is written the document is only undone, redone,
\* written again or read back.
FileCaps == [Caps(MaxUndoConnect) EXCEPT !.files = {<<"a", "\n", "b", "\n">>}]
FrameIdleFile == FrameIdleIn(FileCaps)
FramePressFile ==
    /\ FramePressOn({"Tools", "Code Node", "code_lock", "Marker", "canvas", "Undo",
                     "Redo", "Save Project", "Open"}, FileCaps)
    /\ disk # <<>> => pointer'.target.b \in {"Undo", "Redo", "Save Project", "Open"}

\* The text fields of a new code node are filled in, once, before
\* anything else is done.
FrameTypeFile ==
    /\ FrameTypeIn(FileCaps, Paths, {<<"b", "\n">>})
    /\ disk = <<>> /\ code_nodes' # code_nodes
    /\ last_cmd = "Code Node"

FrameReleaseFile ==
    /\ FrameReleaseIn(FileCaps)
    /\ Len(code_nodes') <= MaxFileNodes
    /\ Len(strokes') <= MaxFileNodes

NextFile ==
    \/ FrameIdleFile
    \/ FrameTypeFile
    \/ FramePressFile
    \/ FrameReleaseFile

SpecFile == Init /\ [][NextFile]_vars

\* What Open would restore from the document Save would write now.
Reloaded == load_project(save_project(App, TRUE), TRUE)

ToolHeld(b) ==
    /\ ~crashed /\ pointer.down /\ ~pointer.moved
    /\ pointer.target.w = "tool" /\ pointer.target.b = b

\* The event of that click: a file was picked in the dialog, ok is whether
\* the file operation succeeds.
FileClickEv(ok) ==
    [IdleEv EXCEPT !.target = pointer.target, !.released = TRUE, !.clicked = TRUE,
                   !.picked = TRUE, !.io_ok = ok]

\* The fields of MyApp: the live collections, the view and the two stacks.
InMemory(a) ==
    [note_nodes |-> a.note_nodes, code_nodes |-> a.code_nodes,
     connections |-> a.connections, strokes |-> a.strokes,
     zoom |-> a.zoom, offset |-> a.offset,
     undo_stack |-> a.undo_stack, redo_stack |-> a.redo_stack,
     selected_node |-> a.selected_node, next_note_id |-> a.next_note_id,
     project_root |-> a.project_root, tools_open |-> a.tools_open,
     marker_active |-> a.marker_active, eraser_active |-> a.eraser_active,
     arrow_connection_active |-> a.arrow_connection_active,
     connection_start |-> a.connection_start,
     current_stroke |-> a.current_stroke]

\* C23: a failed Open (file unreadable or document not parseable) leaves the
\* live collections, zoom, offset, undo stack and redo stack exactly as they
\* were; Save, failed or not, changes no in-memory state.
C23_FailedOpenSaveKeepMemory ==
    /\ ToolHeld("Open") =>
           InMemory(Frame(App, FileClickEv(FALSE))) = InMemory(App)
    /\ ToolHeld("Save Project") =>
           \A ok \in BOOLEAN : InMemory(Frame(App, FileClickEv(ok))) = InMemory(App)

\* After a click on Open, with a document in the file, the document in
\* memory is still another one, with a note and a filled undo stack.
C23_Witness ==
    /\ last_cmd = "Open" /\ disk # <<>>
    /\ project_history(App) # deserialize_history(disk[1])
    /\ note_nodes # <<>> /\ undo_stack # <<>>

\* Two notes, one of them dragged, with undo.
FrameIdleCarry == FrameIdleIn(Caps(MaxUndoConnect))
FramePressCarry ==
    FramePressOn({"note", "Tools", "Note Node", "Undo"}, Caps(MaxUndoConnect))
FrameMoveCarry == FrameMoveIn(Caps(MaxUndoConnect))
FrameReleaseCarry == FrameReleaseIn(Caps(MaxUndoConnect))

NextCarry ==
    \/ FrameIdleCarry
    \/ FramePressCarry
    \/ FrameMoveCarry
    \/ FrameReleaseCarry

SpecCarry == Init /\ [][NextCarry]_vars

\* The pointer is held on note i.
NoteHeld(i) ==
    /\ ~crashed /\ pointer.down
    /\ pointer.target.w = "note" /\ pointer.target.i = i

\* Every node but note i is where it was when the gesture began.
OthersInPlace(i) ==
    /\ \A k \in 1..Len(note_nodes) :
          k # i => note_nodes'[k].position = gesture_from.note_nodes[k].position
    /\ code_nodes' = gesture_from.code_nodes

F32Bits == 24
F32One == 2^F32Bits
F32Half == 2^(F32Bits - 1)
F32Limb == 2^(F32Bits \div 2)

RECURSIVE F32Norm(_, _)
F32Norm(m, e) == IF m >= F32Half THEN [m |-> m, e |-> e] ELSE F32Norm(2 * m, e - 1)

\* a whole number 0 < n < 2^24, exact
F32FromInt(n) == F32Norm(n, 0)

\* m with the part cut off compared to half a unit (cmp = -1, 0, 1)
F32Round(m, e, cmp) ==
    LET up == IF cmp > 0 \/ (cmp = 0 /\ m % 2 = 1) THEN m + 1 ELSE m
    IN IF up = F32One THEN [m |-> F32Half, e |-> e + 1] ELSE [m |-> up, e |-> e]

Compare(x, y) == IF x < y THEN -1 ELSE IF x = y THEN 0 ELSE 1

\* a * b: the 48-bit product of the mantissas from 12-bit limbs
F32Mul(a, b) ==
    LET ah == a.m \div F32Limb
        al == a.m % F32Limb
        bh == b.m \div F32Limb
        bl == b.m % F32Limb
        mid == ah * bl + al * bh
        low == (mid % F32Limb) * F32Limb + al * bl
        hi == ah * bh + mid \div F32Limb + low \div F32One
        lo == low % F32One
    IN IF hi >= F32Half
       THEN F32Round(hi, a.e + b.e + F32Bits, Compare(lo, F32Half))
       ELSE F32Round(2 * hi + lo \div F32Half, a.e + b.e + F32Bits - 1,
                     Compare(2 * (lo % F32Half), F32Half))

\* long division: bits more quotient bits from remainder r < d
RECURSIVE F32LongDiv(_, _, _, _)
F32LongDiv(r, d, q, bits) ==
    IF bits = 0 THEN <<q, r>>
    ELSE IF 2 * r >= d THEN F32LongDiv(2 * r - d, d, 2 * q + 1, bits - 1)
    ELSE F32LongDiv(2 * r, d, 2 * q, bits - 1)

\* a / b
F32Div(a, b) ==
    LET whole == a.m >= b.m
        bits == IF whole THEN F32Bits - 1 ELSE F32Bits
        qr == F32LongDiv(IF whole THEN a.m - b.m ELSE a.m, b.m,
                         IF whole THEN 1 ELSE 0, bits)
    IN F32Round(qr[1], a.e - b.e - bits, Compare(2 * qr[2], b.m))

\* a + b for a.e >= b.e: two guard bits and a sticky bit
F32AddOrdered(a, b) ==
    LET d == a.e - b.e
        cut == 2^d
        small == (4 * b.m) \div cut
        sticky == IF (4 * b.m) % cut # 0 THEN 1 ELSE 0
        sum == 4 * a.m + small
    IN IF d > F32Bits + 1 THEN a
       ELSE IF sum >= 4 * F32One
       THEN F32Round(sum \div 8, a.e + 1, Compare(2 * (sum % 8) + sticky, 8))
       ELSE F32Round(sum \div 4, a.e, Compare(2 * (sum % 4) + sticky, 4))

F32Add(a, b) == IF a.e >= b.e THEN F32AddOrdered(a, b) ELSE F32AddOrdered(b, a)

\* a - b for a > b
F32Sub(a, b) ==
    LET d == a.e - b.e
        cut == 2^d
        small == (4 * b.m) \div cut
        sticky == IF (4 * b.m) % cut # 0 THEN 1 ELSE 0
        diff == 4 * a.m - small - sticky
    IN IF d > F32Bits + 1 THEN a
       ELSE IF diff >= 2 * F32One
       THEN F32Round(diff \div 4, a.e, Compare(2 * (diff % 4) + sticky, 4))
       ELSE IF diff >= F32One
       THEN F32Round(diff \div 2, a.e - 1, Compare(2 * (diff % 2) + sticky, 2))
       ELSE F32Norm(diff, a.e - 2)

F32Less(a, b) == a.e + F32Bits < b.e + F32Bits \/ (a.e = b.e /\ a.m < b.m)

\* self.zoom in a state: the f32 of zoom / 10 (2.0, 0.4, 0.8, ...)
ZoomF32 == F32Div(F32FromInt(zoom), F32FromInt(ZoomDen))

\* toScreen without the offset
F32ToScreen_without_offset(x, off, z) == F32Mul(x, z)

\* p * self.zoom + self.offset, one coordinate; off is a whole number >= 0
F32ToScreen(x, off, z) ==
    IF off = 0 THEN F32Mul(x, z) ELSE F32Add(F32Mul(x, z), F32FromInt(off))

\* (pos - self.offset) / self.zoom, one coordinate, for pos > off
F32ToDocument(s, off, z) ==
    IF off = 0 THEN F32Div(s, z) ELSE F32Div(F32Sub(s, F32FromInt(off)), z)

\* pointer x coordinates (whole pixels) and document x coordinates tried
ScreenCoords == {45, 400, 440}
DocCoords == {13, 200, 250}

\* One coordinate through toDocument and back through toScreen, and the
\* other way round, at the state's zoom and horizontal offset.
ThereAndBack(q) ==
    F32ToScreen(F32ToDocument(F32FromInt(q), offset[1], ZoomF32), offset[1], ZoomF32)
BackAndThere(p) ==
    F32ToDocument(F32ToScreen(F32FromInt(p), offset[1], ZoomF32), offset[1], ZoomF32)

F32Close(x, y) ==
    \/ x = y
    \/ F32Less(y, x) /\ F32Less(F32Sub(x, y), [m |-> F32Half, e |-> -9 - F32Bits])
    \/ F32Less(x, y) /\ F32Less(F32Sub(y, x), [m |-> F32Half, e |-> -9 - F32Bits])

ZoomIsPowerOfTwo == \E k \in 0..3 : zoom * 2 = ZoomDen * 2^k

FrameIdleLock == FrameIdleIn(Caps(MaxUndoConnect))
FramePressLock ==
    FramePressOn({"note", "note_lock", "Tools", "Note Node", "Undo", "Redo"},
                 Caps(MaxUndoConnect))
FrameMoveLock == FrameMoveIn(Caps(MaxUndoConnect))
FrameReleaseLock ==
    /\ FrameReleaseIn(Caps(MaxUndoConnect))
    /\ Len(note_nodes') <= MaxGestureNodes

NextLock ==
    \/ FrameIdleLock
    \/ FramePressLock
    \/ FrameMoveLock
    \/ FrameReleaseLock

SpecLock == Init /\ [][NextLock]_vars

\* The note was created (created is the document then), a drag took it
\* somewhere else, and the click that has just ended locked it.
CreatedDraggedLocked(created) ==
    /\ ~crashed /\ last_cmd = "note_lock" /\ redo_stack = <<>>
    /\ Len(created.note_nodes) = 1 /\ Len(note_nodes) = 1
    /\ note_nodes[1].id = created.note_nodes[1].id
    /\ ~created.note_nodes[1].locked /\ note_nodes[1].locked
    /\ note_nodes[1].position # created.note_nodes[1].position

\* C26: after a note is created, dragged and locked, two undo() calls leave
\* it unlocked at the position it had before the drag, and two redo() calls
\* then bring back the drag and the lock.
C26_UndoTwiceRedoTwice ==
    (Len(undo_stack) = 3 /\ CreatedDraggedLocked(undo_stack[1])) =>
        /\ ~undo(undo(App)).note_nodes[1].locked
        /\ undo(undo(App)).note_nodes[1].position = undo_stack[1].note_nodes[1].position
        /\ take_snapshot(redo(redo(undo(undo(App))))) = take_snapshot(App)

\* ------------------------------------------------------- an eraser frame
\* dist(p, c) >= 10 / z, as squares: dist^2 * z^2 >= 10^2
OutOfReach(p, c, z) ==
    ((p[1] - c[1]) * (p[1] - c[1]) + (p[2] - c[2]) * (p[2] - c[2])) * z * z
        >= (EraserRadius * ZoomDen) * (EraserRadius * ZoomDen)

\* The points of a stroke out of the eraser's reach, in their order.
RECURSIVE PointsLeft(_, _, _)
PointsLeft(points, c, z) ==
    IF points = <<>> THEN <<>>
    ELSE (IF OutOfReach(Head(points), c, z) THEN <<Head(points)>> ELSE <<>>)
         \o PointsLeft(Tail(points), c, z)

\* The strokes in their order, each with the points left to it, those with
\* fewer than two points left out.
RECURSIVE StrokesLeft(_, _, _)
StrokesLeft(ss, c, z) ==
    IF ss = <<>> THEN <<>>
    ELSE (IF Len(PointsLeft(Head(ss).points, c, z)) >= 2
          THEN <<[Head(ss) EXCEPT !.points = PointsLeft(@, c, z)]>>
          ELSE <<>>)
         \o StrokesLeft(Tail(ss), c, z)

\* Strokes drawn with the marker and rubbed out with the eraser.
EraseCaps == [Caps(MaxUndoConnect) EXCEPT !.strokes = MaxEraseStrokes]
FrameIdleErase == FrameIdleIn(EraseCaps)
FramePressErase == FramePressOn({"canvas", "Tools", "Marker", "Eraser"}, EraseCaps)
FrameMoveErase == FrameMoveIn(EraseCaps)
FrameReleaseErase == FrameReleaseIn(EraseCaps)

NextErase ==
    \/ FrameIdleErase
    \/ FramePressErase
    \/ FrameMoveErase
    \/ FrameReleaseErase

SpecErase == Init /\ [][NextErase]_vars

\* The step is an eraser frame: the primary pointer is held down with
\* Eraser active.
EraserFrameStep == ~crashed /\ eraser_active /\ pointer'.down

RowCaps ==
    [Caps(MaxUndoRow) EXCEPT !.ids = MaxRowNodes, !.nodes = MaxRowNodes]
FrameIdleRow == FrameIdleIn(RowCaps)
FramePressRow == FramePressOn({"Tools", "Note Node", "note_o", "menu"}, RowCaps)
FrameReleaseRow == FrameReleaseIn(RowCaps)

NextRow ==
    \/ FrameIdleRow
    \/ FramePressRow
    \/ FrameReleaseRow

SpecRow == Init /\ [][NextRow]_vars

\* The selected node is a note (TRUE) or a code node, and its 1-based
\* index among the nodes of its kind.
SelectedIsNote == selected_node[1] < Len(note_nodes)
SelectedAt ==
    IF SelectedIsNote THEN selected_node[1] + 1
    ELSE selected_node[1] - Len(note_nodes) + 1
SelectedRow == IF SelectedIsNote THEN note_nodes ELSE code_nodes

\* The selected node and its neighbour at 1-based index j have changed
\* places, every other entry is in place, the selection has gone with the
\* node, one snapshot is recorded.
SwappedWith(j) ==
    /\ IF SelectedIsNote
       THEN note_nodes' = Swap(note_nodes, SelectedAt, j) /\ code_nodes' = code_nodes
       ELSE code_nodes' = Swap(code_nodes, SelectedAt, j) /\ note_nodes' = note_nodes
    /\ selected_node' = <<selected_node[1] + j - SelectedAt>>
    /\ Len(undo_stack') = Len(undo_stack) + 1

NothingReordered ==
    /\ note_nodes' = note_nodes /\ code_nodes' = code_nodes
    /\ selected_node' = selected_node
    /\ undo_stack' = undo_stack /\ redo_stack' = redo_stack

\* C28: Backward on the node at index 0 and Forward on the node at the last
\* index change neither the order of the nodes, the selection nor the
\* history stacks; at any other index the click swaps the selected node
\* with its neighbour, leaves every other entry in place, moves the
\* selection with the node and records exactly one snapshot.
C28_Reorder ==
    [][/\ MenuClick("Backward") =>
             IF SelectedAt = 1 THEN NothingReordered ELSE SwappedWith(SelectedAt - 1)
       /\ MenuClick("Forward") =>
             IF SelectedAt = Len(SelectedRow) THEN NothingReordered
             ELSE SwappedWith(SelectedAt + 1)]_vars

\* ------------------------------------------------------ start-anchor rank
\* The connections (by index) that start on the node id and side
\* connection k starts on.
SameStart(k) ==
    {j \in 1..Len(connections) :
        /\ connections[j].start_node_id = connections[k].start_node_id
        /\ connections[j].start_side = connections[k].start_side}

\* What update gets for the start anchor of connection k.
StartRank(k) ==
    get_arrow_index(connections, connections[k].start_node_id,
                    connections[k].start_side, k)

\* C29: for every connection c, get_arrow_index with c's start node id and
\* start side returns (index, total): total >= 1 is the number of
\* connections with that start node id and side, index is c's 0-based
\* position among them in collection order; connections sharing a start
\* get pairwise distinct indices in 0..total-1.
C29_StartAnchorRank ==
    \A k \in 1..Len(connections) :
        /\ StartRank(k)[2] = Cardinality(SameStart(k))
        /\ StartRank(k)[2] >= 1
        /\ StartRank(k)[1] = Cardinality({j \in SameStart(k) : j < k})
        /\ StartRank(k)[1] \in 0..(StartRank(k)[2] - 1)
        /\ \A j \in SameStart(k) : j # k => StartRank(j)[1] # StartRank(k)[1]

\* Two connections leave the same side of the same node: they are ranked
\* 0 and 1 of 2.
C29_Witness ==
    /\ ~crashed /\ Len(connections) = 2
    /\ SameStart(1) = {1, 2}
    /\ StartRank(1) = <<0, 2>> /\ StartRank(2) = <<1, 2>>

\* ------------------------------------------------------------------- New
\* New, with everything it resets in play: a note, selected or picked as
\* the start of a connection, a stroke, the three modes, zoom, pan and
\* something undone.
\* The wheel is turned before anything is clicked.
FrameScrollNew == FrameScroll /\ zoom' >= DefaultZoom /\ last_cmd = ""
\* Once something is undone the next click is New.
FramePressNew ==
    /\ FramePressOn({"canvas", "note", "note_o", "Tools", "New", "Note Node",
                     "Marker", "Eraser", "Arrow", "Undo"}, Caps(MaxUndo))
    /\ redo_stack # <<>> => pointer'.target.b = "New"
FrameReleaseNew ==
    /\ FrameRelease
    /\ Len(note_nodes') <= MaxGestureNodes
    /\ Len(strokes') <= MaxModeStrokes

NextNew ==
    \/ FrameIdle
    \/ FrameScrollNew
    \/ FramePressNew
    \/ FrameMove
    \/ FrameReleaseNew

SpecNew == Init /\ [][NextNew]_vars

\* ProjectSnapshot of the document New leaves.
EmptyDocument ==
    [note_nodes |-> <<>>, code_nodes |-> <<>>, connections |-> <<>>,
     strokes |-> <<>>, zoom |-> DefaultZoom, offset |-> <<0, 0>>]

\* C30: after a click on New the notes, code nodes, connections and strokes
\* are empty, Marker, Eraser and Connect mode are off, the pending
\* connection start and the selection are cleared, zoom is 2.0, offset is
\* (0, 0), the redo stack is empty, the undo stack holds exactly one
\* snapshot, of the empty document, and the id counter is what it was.
C30_NewResets ==
    [][(ToolHeld("New") /\ ~pointer'.down) =>
          /\ ~crashed'
          /\ note_nodes' = <<>> /\ code_nodes' = <<>>
          /\ connections' = <<>> /\ strokes' = <<>>
          /\ ~marker_active' /\ ~eraser_active' /\ ~arrow_connection_active'
          /\ connection_start' = <<>> /\ selected_node' = <<>>
          /\ zoom' = DefaultZoom /\ offset' = <<0, 0>>
          /\ redo_stack' = <<>>
          /\ undo_stack' = <<EmptyDocument>>
          /\ take_snapshot(App') = EmptyDocument
          /\ next_note_id' = next_note_id]_vars

\* New has been clicked in a session that had created a note: the document
\* is empty, the counter stands after the ids handed out.
C30_Witness ==
    /\ ~crashed /\ last_cmd = "New"
    /\ ids_seen # {} /\ next_note_id = FirstId + Cardinality(ids_seen)
    /\ next_note_id > FirstId
    /\ note_nodes = <<>> /\ undo_stack = <<EmptyDocument>>

\* ------------------------------------------------- Lock of a code node
\* One code node, its path and its code typed, locked against every file.
Chars == {"a", "b", " ", "\n"}
TextsUpTo(n) == UNION {[1..k -> Chars] : k \in 0..n}
LockCaps ==
    [Caps(MaxUndo) EXCEPT !.nodes = MaxLockNodes, !.files = TextsUpTo(MaxFileText)]
FrameIdleSnippet == FrameIdleIn(LockCaps)
FrameTypeSnippet == FrameTypeIn(LockCaps, Paths, TextsUpTo(MaxSnippet))
FramePressSnippet == FramePressOn({"Tools", "Code Node", "code_lock"}, LockCaps)
FrameReleaseSnippet == FrameReleaseIn(LockCaps)

NextSnippet ==
    \/ FrameIdleSnippet
    \/ FrameTypeSnippet
    \/ FramePressSnippet
    \/ FrameReleaseSnippet

SpecSnippet == Init /\ [][NextSnippet]_vars

\* The pointer is held on the Lock button of code node i.
LockHeld(i) ==
    /\ ~crashed /\ pointer.down /\ ~pointer.moved
    /\ pointer.target.w = "code_lock" /\ pointer.target.i = i

\* The event of that click, with the file of the node read (ok) as
\* contents, or not read.
LockClickEv(contents, ok) ==
    [IdleEv EXCEPT !.target = pointer.target, !.released = TRUE, !.clicked = TRUE,
                   !.io_ok = ok, !.file = contents]

\* The run of file lines from line j on equals the lines of the snippet.
RunAt(file_lines, snippet_lines, j) ==
    /\ j + Len(snippet_lines) - 1 <= Len(file_lines)
    /\ \A k \in 1..Len(snippet_lines) : file_lines[j + k - 1] = snippet_lines[k]

\* The 1-based index of the first such run, unset when there is none.
FirstRun(file_lines, snippet_lines) ==
    IF \E j \in 1..Len(file_lines) : RunAt(file_lines, snippet_lines, j)
    THEN <<CHOOSE j \in 1..Len(file_lines) :
              /\ RunAt(file_lines, snippet_lines, j)
              /\ \A h \in 1..(j - 1) : ~RunAt(file_lines, snippet_lines, h)>>
    ELSE <<>>

\* What Lock leaves: the node locked, one more snapshot, the line offset
\* found in the file when it was read, as it was when not.
LockedWith(r, i, contents, ok) ==
    /\ ~r.crashed
    /\ r.code_nodes[i].locked
    /\ Len(r.undo_stack) = Len(undo_stack) + 1
    /\ r.code_nodes[i].line_offset =
          IF ok /\ project_root # <<>> /\ code_nodes[i].file_path # <<>>
          THEN FirstRun(lines(contents), lines(snippet_of(code_nodes[i].code)))
          ELSE <<>>

\* C31: locking a code node never fails: for every stored snippet, an empty
\* one included, and every readable or unreadable file, Lock sets locked,
\* records exactly one snapshot and sets line_offset to the 1-based index
\* of the first run of file lines equal to the snippet's lines, or leaves
\* it unset when there is no such run or the file cannot be read.
C31_LockNeverFails ==
    \A i \in 1..Len(code_nodes) :
        LockHeld(i) =>
            \A contents \in LockCaps.files : \A ok \in BOOLEAN :
            \A r \in {Frame(App, LockClickEv(contents, ok))} :
                LockedWith(r, i, contents, ok)

\* ------------------------------------------------------- history depth
\* The deepest stack below the depth explored.
StackBound == MaxUndoConnect - 1

\* C32: the undo and redo stacks are bounded: there is a fixed K with
\* len(undo_stack) <= K and len(redo_stack) <= K in every reachable state.
\* record_state pushes whatever the length; K is taken as large as the
\* depth explored allows.
C32_StacksBounded ==
    /\ Len(undo_stack) <= StackBound
    /\ Len(redo_stack) <= StackBound

\* ---------------------------------------------------------------------
\* Side picks in connect mode.

\* The pointer is held, unmoved, on the body of a node while connect
\* mode is on: its release is a pick on that node.
PickHeld ==
    /\ ~crashed /\ pointer.down /\ ~pointer.moved
    /\ arrow_connection_active
    /\ pointer.target.w \in {"note", "code"}

\* The node under the held pointer and its rectangle on screen.
PickedNode ==
    IF pointer.target.w = "note" THEN note_nodes[pointer.target.i]
    ELSE code_nodes[pointer.target.i]

PickedPos == ToScreen(PickedNode.position, offset, zoom)

PickedSize == ScaleSize(PickedNode.size, zoom)

\* Click points inside a rectangle: near each edge, near each corner and
\* at the centre.
ClickPts(pos, size) ==
    {<<x, y>> : x \in {pos[1] + 10, pos[1] + size[1] \div 2, pos[1] + size[1] - 10},
                y \in {pos[2] + 2, pos[2] + size[2] \div 2, pos[2] + size[2] - 2}}

\* The release frame of a pick at point p.
PickClickEv(p) ==
    [IdleEv EXCEPT !.target = pointer.target, !.released = TRUE, !.clicked = TRUE,
                   !.pos = p]

\* The side a pick recorded: of the pending start, or of the end of the
\* connection it completed.
PickedSide(r) ==
    IF connection_start = <<>> THEN r.connection_start[1].side
    ELSE r.connections[Len(r.connections)].end_side

\* Four times the squared distance from p to the midpoint of a side.
MidDist(s, pos, size, p) ==
    LET mx == IF s = "Left" THEN 2 * pos[1]
              ELSE IF s = "Right" THEN 2 * (pos[1] + size[1])
              ELSE 2 * pos[1] + size[1]
        my == IF s = "Top" THEN 2 * pos[2]
              ELSE IF s = "Bottom" THEN 2 * (pos[2] + size[2])
              ELSE 2 * pos[2] + size[2]
    IN (2 * p[1] - mx) * (2 * p[1] - mx) + (2 * p[2] - my) * (2 * p[2] - my)

NearestMidpoint(pos, size, p) ==
    {s \in Sides : \A t \in Sides : MidDist(s, pos, size, p) <= MidDist(t, pos, size, p)}

\* The distance from p to the line a side lies on.
EdgeDist(s, pos, size, p) ==
    IF s = "Top" THEN Abs(p[2] - pos[2])
    ELSE IF s = "Bottom" THEN Abs(p[2] - (pos[2] + size[2]))
    ELSE IF s = "Left" THEN Abs(p[1] - pos[1])
    ELSE Abs(p[1] - (pos[1] + size[1]))

SideOrder == <<"Top", "Bottom", "Left", "Right">>

\* The first side, in the order Top, Bottom, Left, Right, whose line is
\* at the least distance from p.
NearestEdge(pos, size, p) ==
    SideOrder[CHOOSE k \in 1..4 :
        /\ \A h \in 1..4 : EdgeDist(SideOrder[k], pos, size, p)
                               <= EdgeDist(SideOrder[h], pos, size, p)
        /\ \A h \in 1..(k - 1) : EdgeDist(SideOrder[h], pos, size, p)
                                     > EdgeDist(SideOrder[k], pos, size, p)]

\* C33 as stated: for every node rectangle and every click point inside
\* it, the side picked is the side whose midpoint is nearest the click
\* point, for start and end picks on notes and code nodes alike.
C33_NearestMidpointPicked ==
    PickHeld =>
        \A p \in ClickPts(PickedPos, PickedSize) :
        \A r \in {Frame(App, PickClickEv(p))} :
            PickedSide(r) \in NearestMidpoint(PickedPos, PickedSize, p)

\* C33: for every node rectangle and every click point inside it, the
\* side picked is the side whose edge line is nearest the click point,
\* the first of Top, Bottom, Left, Right among equals, and the same rule
\* serves start and end picks on notes and code nodes.
C33_NearestEdgePicked ==
    PickHeld =>
        \A p \in ClickPts(PickedPos, PickedSize) :
        \A r \in {Frame(App, PickClickEv(p))} :
            PickedSide(r) = NearestEdge(PickedPos, PickedSize, p)

\* An end pick on a code node is under way, the start was on a note.
C33_Witness ==
    /\ PickHeld
    /\ pointer.target.w = "code"
    /\ connection_start # <<>>
    /\ connection_start[1].type = "Note"

\* ---------------------------------------------------------------------
\* Connections whose node is gone.

\* Endpoint "start" or "end" of connection k names a node that is not in
\* the collection of its kind.
Missing(k, end) ==
    LET c == connections[k]
    IN IF end = "start"
       THEN find(IF c.start_node_type = "Note" THEN note_nodes ELSE code_nodes,
                 c.start_node_id) = 0
       ELSE find(IF c.end_node_type = "Note" THEN note_nodes ELSE code_nodes,
                 c.end_node_id) = 0

\* The anchor the router computes for that endpoint and the side it is on.
AnchorOf(k, end) ==
    IF end = "start" THEN start_connection_point(App, k)
    ELSE end_connection_point(App, k)

SideOf(k, end) ==
    IF end = "start" THEN connections[k].start_side ELSE connections[k].end_side

\* The screen image of the document origin.
OriginOnScreen == ToScreen(<<0, 0>>, offset, zoom)

\* A coordinate of an anchor, a fraction <<numerator, denominator>>,
\* equals the whole number v; lies between the whole numbers lo and hi.
FracIs(q, v) == q[1] = v * q[2]

FracWithin(q, lo, hi) == lo * q[2] <= q[1] /\ q[1] <= hi * q[2]

OnSideOfSquare(p, side, corner, extent) ==
    /\ FracWithin(p[1], corner[1], corner[1] + extent[1])
    /\ FracWithin(p[2], corner[2], corner[2] + extent[2])
    /\ side = "Top" => FracIs(p[2], corner[2])
    /\ side = "Bottom" => FracIs(p[2], corner[2] + extent[2])
    /\ side = "Left" => FracIs(p[1], corner[1])
    /\ side = "Right" => FracIs(p[1], corner[1] + extent[1])

C35_PendingStartImpliesConnectMode ==
    connection_start # <<>> => arrow_connection_active

\* A start is pending after a connection has been completed.
C35_Witness ==
    /\ connection_start # <<>>
    /\ arrow_connection_active
    /\ ~pointer.down
    /\ connections # <<>>

\* ---------------------------------------------------------------------
\* The drag flag of nodes, live and stored.

\* Some node of a sequence of nodes has is_dragging set.
SomeDragging(nodes) == \E k \in 1..Len(nodes) : nodes[k].is_dragging

\* Some snapshot of a stack holds a node with is_dragging set.
StoresDragging(stack) ==
    \E k \in 1..Len(stack) :
        SomeDragging(stack[k].note_nodes) \/ SomeDragging(stack[k].code_nodes)

\* Drawing over a note: the marker on while a note is pressed, dragged and
\* dropped, with undo and redo.
InkCaps ==
    [Caps(MaxUndoConnect) EXCEPT !.nodes = MaxGestureNodes]

FrameIdleInk == FrameIdleIn(InkCaps)

FramePressInk ==
    FramePressOn({"note", "Tools", "Note Node", "Marker", "Undo", "Redo"}, InkCaps)

FrameMoveInk == FrameMoveIn(InkCaps)

FrameReleaseInk == FrameReleaseIn(InkCaps)

NextInk ==
    \/ FrameIdleInk
    \/ FramePressInk
    \/ FrameMoveInk
    \/ FrameReleaseInk

SpecInk == Init /\ [][NextInk]_vars

\* C36: no snapshot on the undo or redo stack contains a node with
\* is_dragging = true, and when the primary pointer is up no live node has
\* is_dragging = true.
C36_NoDragFlagStoredOrLeft ==
    /\ ~StoresDragging(undo_stack)
    /\ ~StoresDragging(redo_stack)
    /\ ~pointer.down => ~SomeDragging(note_nodes) /\ ~SomeDragging(code_nodes)

\* ---------------------------------------------------------------------
\* What the selection designates.

\* The node whose menu is shown for selection sel: the note loop shows it
\* for note i when Some(i) == selected_node, the code loop for code node i
\* when Some(i + note_nodes.len()) == selected_node.  <<kind, id>>, or
\* <<>> when no menu is shown.
menu_node(sel, notes, codes) ==
    IF sel = <<>> THEN <<>>
    ELSE IF sel[1] < Len(notes) THEN <<"Note", notes[sel[1] + 1].id>>
    ELSE IF sel[1] - Len(notes) < Len(codes)
    THEN <<"Code", codes[sel[1] - Len(notes) + 1].id>>
    ELSE <<>>

Designated == menu_node(selected_node, note_nodes, code_nodes)

\* The frame is the release of a press on an options button or on a
\* button of the floating menu: the user toggles the selection, reorders
\* or deletes the selected node.
SelectionGesture ==
    pointer.down /\ pointer.target.w \in {"note_o", "code_o", "menu"}

\* C37: the selection keeps designating the same node, by id and kind,
\* until the user toggles it, reorders or deletes that node: no other
\* frame (creating or deleting another node, undo, redo) makes the menu
\* act on a different node.
C37_SelectionStable ==
    [][(Designated # <<>> /\ ~SelectionGesture /\ Designated' # <<>>)
           => Designated' = Designated]_vars

\* ---------------------------------------------------------------------
\* What undo, redo and the view operations touch.

\* The fields of App that are neither the document nor a stack.
SessionFields ==
    {"next_note_id", "marker_active", "eraser_active", "arrow_connection_active",
     "connection_start", "selected_node", "current_stroke", "dragging",
     "drag_start", "tools_open", "project_root", "MARKER_STATE_RECORDED",
     "ERASER_STATE_RECORDED"}

SessionKept(r) == \A f \in SessionFields : r[f] = App[f]

StacksKept(r) == r.undo_stack = undo_stack /\ r.redo_stack = redo_stack

\* The events of a wheel step, of a click on Reset Zoom and of the frames
\* of a drag on the canvas.
ScrollEv(dy) == [IdleEv EXCEPT !.scroll = dy]

ResetZoomEv ==
    [IdleEv EXCEPT !.target = Widget("tool", 0, "Reset Zoom"), !.released = TRUE,
                   !.clicked = TRUE]

PanEv(d, started, stopped) ==
    [IdleEv EXCEPT !.target = Widget("canvas", 0, ""), !.pos = Add(pointer.pos, d),
                   !.primary_down = ~stopped, !.released = stopped,
                   !.drag_started = started, !.drag_stopped = stopped, !.drag_delta = d]

\* C38: undo() and redo() change only the document (notes, code nodes,
\* connections, strokes, zoom, offset) and the two stacks: the id counter,
\* the modes, the pending start, the selection and the stroke in progress
\* stay as they are; a wheel step, Reset Zoom and panning neither push a
\* snapshot nor clear the redo stack.
C38_UndoRedoAndViewScope ==
    /\ \A r \in {undo(App), redo(App)} : SessionKept(r)
    /\ \A dy \in Scrolls : StacksKept(ZoomPhase(App, ScrollEv(dy)))
    /\ tools_open => StacksKept(ToolbarPhase(App, ResetZoomEv))
    /\ \A d \in Deltas : \A started, stopped \in BOOLEAN :
           StacksKept(PanPhase(App, PanEv(d, started, stopped)))

\* Undo has just run with the marker on, a note selected and the id
\* counter advanced.
C38_Witness ==
    /\ last_cmd = "Undo"
    /\ redo_stack # <<>>
    /\ undo_stack # <<>>
    /\ selected_node # <<>>
    /\ marker_active
    /\ next_note_id > 1

\* ---------------------------------------------------------------------
\* The length of committed strokes.

\* Every stroke of a sequence of strokes has at least two points.
AllLong(ss) == \A k \in 1..Len(ss) : Len(ss[k].points) >= 2

\* C39: every committed stroke, live and in every snapshot on the undo
\* and redo stacks, has at least two points.
C39_StrokesHaveTwoPoints ==
    /\ AllLong(strokes)
    /\ \A k \in 1..Len(undo_stack) : AllLong(undo_stack[k].strokes)
    /\ \A k \in 1..Len(redo_stack) : AllLong(redo_stack[k].strokes)

\* ---------------------------------------------------------------------
\* Locks.

\* Notes and code nodes created, dragged, typed into, locked, reordered
\* and deleted, with undo, redo and New.
OneWayCaps ==
    [Caps(MaxUndo) EXCEPT !.nodes = MaxLockNodes, !.files = {<<"b">>}]

FrameIdleOneWay == FrameIdleIn(OneWayCaps)

FrameTypeOneWay ==
    /\ FrameTypeIn(OneWayCaps, Paths, {<<"b">>})
    /\ code_nodes' # code_nodes

FramePressOneWay ==
    FramePressOn({"Tools", "Note Node", "Code Node", "note", "note_lock", "code_lock",
                  "code_o", "menu", "Undo", "Redo", "New"}, OneWayCaps)

FrameMoveOneWay == FrameMoveIn(OneWayCaps)

FrameReleaseOneWay == FrameReleaseIn(OneWayCaps)

NextOneWay ==
    \/ FrameIdleOneWay
    \/ FrameTypeOneWay
    \/ FramePressOneWay
    \/ FrameMoveOneWay
    \/ FrameReleaseOneWay

SpecOneWay == Init /\ [][NextOneWay]_vars

\* The ids of the locked nodes of a sequence of nodes, and of all of them.
LockedIds(nodes) == {nodes[k].id : k \in {j \in 1..Len(nodes) : nodes[j].locked}}

IdsOf(nodes) == {nodes[k].id : k \in 1..Len(nodes)}

\* A node locked in before is still in after and is not locked there.
Unlocked(before, after) ==
    \E id \in LockedIds(before) \cap IdsOf(after) : id \notin LockedIds(after)

\* The frame is the release of a press on Undo, Redo, Open or New.
RestoringClick ==
    /\ pointer.down
    /\ pointer.target.w = "tool"
    /\ pointer.target.b \in {"Undo", "Redo", "Open", "New"}

\* C40: Lock is one-way: no frame other than an undo, redo, Open or New
\* (or one deleting the node) takes a node from locked to unlocked, and
\* line_offset is set only on locked nodes.
C40_LockOneWay ==
    [][/\ ~RestoringClick =>
              ~Unlocked(note_nodes, note_nodes') /\ ~Unlocked(code_nodes, code_nodes')
       /\ \A k \in 1..Len(code_nodes') :
              code_nodes'[k].line_offset # <<>> => code_nodes'[k].locked]_vars

\* A code node is locked again, with its line offset, by a redo after an
\* undo had unlocked it.
C40_Witness ==
    /\ ~crashed
    /\ last_cmd = "Redo"
    /\ \E k \in 1..Len(code_nodes) :
          code_nodes[k].locked /\ code_nodes[k].line_offset # <<>>

====
